---- MODULE Spec2Model ----
(***************************************************************************)
(* The Velu task queue: the jobs table of services/queue/sqlite_queue.py,  *)
(* the worker loop of services/worker/main.py that drives it, and the      *)
(* direct-DB worker of services/queue/standalone_worker.py that shares the *)
(* same TASK_DB file.                                                      *)
(*                                                                         *)
(* The jobs table is a sequence of rows: row i has id i (INTEGER PRIMARY   *)
(* KEY AUTOINCREMENT, rows are never deleted).  SQLite allows one writer   *)
(* at a time: wlock is the process holding the write lock (0 when free).   *)
(* Readers (WAL mode) never block and see the committed table.             *)
(***************************************************************************)
EXTENDS Integers, Sequences, FiniteSets, TLC

\* ----------------------------------------------------------------- bounds
MaxJobs == 2
MaxTime == 6
MaxFailTimes == 3
MaxPriority == 1
MaxNotBefore == 1
BatchJobs == 3
NumWorkers == 2

\* ------------------------------------------------------ program constants
SQLQ_MAX_ATTEMPTS == 3
SQLQ_RETRY_BASE_SEC == 2

NULL == -1

Workers == 1..NumWorkers
\* the standalone worker process is identified by a lock owner outside Workers
StandaloneId == NumWorkers + 1

Max(a, b) == IF a >= b THEN a ELSE b

\* f[1] + ... + f[n]
RECURSIVE SumTo(_, _)
SumTo(f, n) == IF n <= 0 THEN 0 ELSE f[n] + SumTo(f, n - 1)

RECURSIVE Pow2(_)
Pow2(n) == IF n <= 0 THEN 1 ELSE 2 * Pow2(n - 1)

VARIABLES
    jobs,       \* the jobs table
    now,        \* the wall clock, _now()
    wlock,      \* holder of the SQLite write lock, 0 when free
    pc,         \* position of each services.worker.main loop ("off": not started)
    job_id,     \* main(): the id returned by dequeue(), 0 for None
    rec,        \* main(): attempts of the record returned by load()
    row,        \* fail(): the attempts value read by its SELECT
    spc,        \* position of the standalone worker loop
    sjob,       \* standalone main(): the claimed job id, 0 for none
    claims,     \* history: successful dequeue() returns per job
    episodes,   \* history: times the job entered status 'queued'
    runs,       \* history: handler invocations per job
    nfail,      \* history: fail() calls completed per job
    nfinish,    \* history: finish() calls completed per job
    processed,  \* main(): the counter processed of each worker loop
    max_jobs,   \* main(): max_jobs of each worker loop, NULL for None
    store,      \* whether TASK_DB can be opened and written
    call,       \* the arguments of the client's last enqueue() or finish()
    ret,        \* the id that call returned, 0 when it returned none
    exc,        \* the exception that call raised, "" when it raised none
    loaded,     \* the record the client's last load() returned
    columns,    \* PRAGMA table_info(jobs): the columns, <<>> without a table
    idx_jobs_ready, \* whether the index idx_jobs_ready exists
    ipc,        \* position of each process inside init()
    cols,       \* _migrate(): the set cols each process has read
    allowed_keys,   \* ApiKeyAndRateLimitMiddleware.allowed_keys
    rate_n,     \* ApiKeyAndRateLimitMiddleware.rate_n
    rate_win,   \* ApiKeyAndRateLimitMiddleware.rate_win
    hits,       \* ApiKeyAndRateLimitMiddleware._hits: bucket -> timestamps
    recent_tasks,   \* _recent_tasks, the ring of received events
    resp,       \* the last request and the response it was given
    admitted,   \* history: the POST /tasks requests that passed the limiter
    HANDLERS,   \* the keys of services.agents.HANDLERS
    reg_exc,    \* the exception the last registration raised, "" for none
    enable_pipeline, \* whether WORKER_ENABLE_PIPELINE is truthy
    res,        \* main(): the result process_job returned or the message it raised
    harness     \* history: the pytest runs, with the dependency's status

\* the state of the bounded-run loop and of the API client
\* the schema of the jobs table and the processes inside init()
mig == <<columns, idx_jobs_ready, ipc, cols>>

\* the state of the HTTP application
web == <<allowed_keys, rate_n, rate_win, hits, recent_tasks, resp, admitted>>

\* the handler registry
reg == <<HANDLERS, reg_exc>>

\* the pipeline tasks of the worker
pipe == <<enable_pipeline, res, harness>>

ext == <<processed, max_jobs, store, call, ret, exc, loaded, mig, web, reg, pipe>>

vars == <<jobs, now, wlock, pc, job_id, rec, row, spc, sjob,
          claims, episodes, runs, nfail, nfinish, ext>>

hist == <<claims, episodes, runs, nfail, nfinish>>

JobIds == 1..Max(MaxJobs, BatchJobs)
Ids == 1..Len(jobs)

\* -------------------------------------------------- python values, JSON
\* A python value is [type, s]: s is the text of a str or bytes value and
\* the json.dumps text of any other value.
PyStr(text) == [type |-> "str", s |-> text]
PyBytes(text) == [type |-> "bytes", s |-> text]
PyDict(text) == [type |-> "dict", s |-> text]
PyList(text) == [type |-> "list", s |-> text]
PyInt(text) == [type |-> "int", s |-> text]
PyNone == [type |-> "NoneType", s |-> "null"]

\* bool(value) is False
Falsy(value) ==
    IF value.type \in {"str", "bytes"} THEN value.s = ""
    ELSE value.s \in {"{}", "[]", "0", "null"}

\* json.dumps(value, ensure_ascii=False); the str values here hold no
\* character that json.dumps escapes
json_dumps(value) ==
    IF value.type = "str" THEN "\"" \o value.s \o "\"" ELSE value.s

\* the dict {"ok": True, "data": data}
OkData(data) == PyDict("{\"ok\": true, \"data\": " \o json_dumps(data) \o "}")

\* the values without a value inside
Atoms ==
    {PyDict("{}"), PyDict("{\"k\": 1}"), PyDict("{\"ok\": true}"),
     PyDict("{\"status\": \"error\"}"),
     PyList("[]"), PyList("[1]"), PyInt("0"), PyInt("1"), PyNone,
     PyStr(""), PyStr("s"), PyStr("oops"),
     PyStr("{}"), PyStr("[]"), PyStr("1"), PyStr("null")}

\* the values json.loads can return here
JsonValues == Atoms \cup {OkData(data) : data \in Atoms}

\* json.loads(text) returns a value, does not raise
IsJson(text) == \E value \in JsonValues : json_dumps(value) = text

\* json.loads(text)
json_loads(text) == CHOOSE value \in JsonValues : json_dumps(value) = text

\* _json_loads_maybe(s); a NULL column is "NULL"
json_loads_maybe(text) ==
    IF text \in {"NULL", ""} THEN PyNone
    ELSE IF IsJson(text) THEN json_loads(text)
    ELSE PyStr(text)

\* a or b
Or(a, b) == IF Falsy(a) THEN b ELSE a

\* ------------------------------------------------------------ the results
NullResult == [ok |-> FALSE, error |-> "NULL", n |-> NULL]

\* _task_fail_n's return value: "passed after <attempts_so_far> failures"
PassedResult(attempts_so_far) == [ok |-> TRUE, error |-> "NULL", n |-> attempts_so_far]

\* fail()'s err_payload
ErrPayload(message, new_attempts) == [ok |-> FALSE, error |-> message, n |-> new_attempts]

\* f"{type(e).__name__}: {e}" for the RuntimeError of _task_fail_n
FailMessage == "RuntimeError: simulated failure"

\* --------------------------------------------------------------- enqueue
\* the INSERT with a status other than 'queued'
NewJob_in_progress(task, fail_times, priority, not_before) ==
    [task        |-> task,
     fail_times  |-> fail_times,
     status      |-> "in_progress",
     result      |-> NullResult,
     attempts    |-> 0,
     priority    |-> priority,
     next_run_at |-> IF not_before # NULL /\ not_before # 0 THEN not_before ELSE NULL,
     last_error  |-> "NULL"]

\* the row of enqueue()'s INSERT; payload {"fail_times": fail_times}
NewJob(task, fail_times, priority, not_before) ==
    [task        |-> task,
     fail_times  |-> fail_times,
     status      |-> "queued",
     result      |-> NullResult,
     attempts    |-> 0,
     priority    |-> priority,
     next_run_at |-> IF not_before # NULL /\ not_before # 0 THEN not_before ELSE NULL,
     last_error  |-> "NULL"]

\* enqueue(task=..., payload=..., priority=..., not_before=...) with a task
\* that is not empty: the INSERT, its commit, return int(cur.lastrowid)
enqueue(task, fail_times, priority, not_before) ==
    /\ task # ""
    /\ wlock = 0
    /\ Len(jobs) < MaxJobs
    /\ jobs' = Append(jobs, NewJob(task, fail_times, priority, not_before))
    /\ episodes' = [episodes EXCEPT ![Len(jobs) + 1] = 1]
    /\ ret' = Len(jobs) + 1
    /\ UNCHANGED <<now, wlock, pc, job_id, rec, row, spc, sjob,
                   claims, runs, nfail, nfinish>>
    /\ UNCHANGED <<processed, max_jobs, store, call, exc, loaded, mig, web, reg, pipe>>

\* --------------------------------------------------------------- dequeue
\* the filter with the comparison off by one: next_run_at < ?
Ready_strict(js, t) ==
    {i \in 1..Len(js) :
        /\ js[i].status = "queued"
        /\ (js[i].next_run_at = NULL \/ js[i].next_run_at < t)}

\* WHERE status='queued' AND (next_run_at IS NULL OR next_run_at <= ?)
Ready(js, t) ==
    {i \in 1..Len(js) :
        /\ js[i].status = "queued"
        /\ (js[i].next_run_at = NULL \/ js[i].next_run_at <= t)}

\* the ordering with the priority key lost: ORDER BY id
Before_id_only(js, a, b) == a < b

\* ORDER BY priority DESC, id
Before(js, a, b) ==
    \/ js[a].priority > js[b].priority
    \/ js[a].priority = js[b].priority /\ a < b

\* ... LIMIT 1; 0 when fetchone() returns no row
SelectReady(js, t) ==
    IF Ready(js, t) = {} THEN 0
    ELSE CHOOSE i \in Ready(js, t) : \A k \in Ready(js, t) \ {i} : Before(js, i, k)

\* the rowcount test turned round
ClaimRowcount_inverted(js, j) == IF js[j].status = "queued" THEN 0 ELSE 1

\* UPDATE jobs SET status='in_progress' WHERE id=? AND status='queued'
ClaimRowcount(js, j) == IF js[j].status = "queued" THEN 1 ELSE 0

\* the claiming UPDATE never committed: closing the connection rolls it back
ClaimUpdate_uncommitted(js, j) == js

\* the table after the claiming UPDATE and con.commit()
ClaimUpdate(js, j) == [js EXCEPT ![j].status = "in_progress"]

\* a plain BEGIN, which takes no lock before the first write
dequeue_begin_deferred(w) ==
    /\ pc[w] = "poll"
    /\ pc' = [pc EXCEPT ![w] = "dequeue"]
    /\ UNCHANGED <<jobs, now, wlock, job_id, rec, row, spc, sjob, hist>>
    /\ UNCHANGED ext

\* con.execute("BEGIN IMMEDIATE"): take the write lock or wait for it
dequeue_begin(w) ==
    /\ pc[w] = "poll"
    /\ wlock = 0
    /\ wlock' = w
    /\ pc' = [pc EXCEPT ![w] = "dequeue"]
    /\ UNCHANGED <<jobs, now, job_id, rec, row, spc, sjob, hist>>
    /\ UNCHANGED ext

\* SELECT, conditional UPDATE, commit; then main() sleeps and polls again on
\* None, or goes on to load() the job
dequeue(w) ==
    /\ pc[w] = "dequeue"
    /\ wlock = w
    /\ LET j == SelectReady(jobs, now) IN
        IF j = 0 \/ ClaimRowcount(jobs, j) = 0
        THEN /\ pc' = [pc EXCEPT ![w] = "poll"]
             /\ job_id' = [job_id EXCEPT ![w] = 0]
             /\ UNCHANGED <<jobs, claims>>
        ELSE /\ jobs' = ClaimUpdate(jobs, j)
             /\ job_id' = [job_id EXCEPT ![w] = j]
             /\ claims' = [claims EXCEPT ![j] = @ + 1]
             /\ pc' = [pc EXCEPT ![w] = "load"]
    /\ wlock' = 0
    /\ UNCHANGED <<now, rec, row, spc, sjob, episodes, runs, nfail, nfinish>>
    /\ UNCHANGED ext

\* ------------------------------------------------- load and process_job
\* a handler that never raises
FailNRaises_never(attempts_so_far, want) == FALSE

\* _task_fail_n: raise while rec.attempts < payload.fail_times
FailNRaises(attempts_so_far, want) == attempts_so_far < want

\* rec = load(job_id); result = process_job(rec)
process_job(w) ==
    /\ pc[w] = "load"
    /\ LET j == job_id[w] IN
        /\ rec' = [rec EXCEPT ![w] = jobs[j].attempts]
        /\ runs' = [runs EXCEPT ![j] = @ + 1]
        /\ pc' = [pc EXCEPT ![w] =
                    IF FailNRaises(jobs[j].attempts, jobs[j].fail_times)
                    THEN "fail" ELSE "finish"]
    /\ UNCHANGED <<jobs, now, wlock, job_id, row, spc, sjob,
                   claims, episodes, nfail, nfinish>>
    /\ UNCHANGED ext

\* ---------------------------------------------------------------- finish
\* the UPDATE of finish() without its WHERE clause
DoneUpdate_no_where(js, j, result) ==
    [i \in 1..Len(js) |->
        [js[i] EXCEPT !.status = "done", !.result = result, !.next_run_at = NULL]]

\* finish() as a DELETE of the finished row
DoneUpdate_delete(js, j, result) ==
    SubSeq(js, 1, j - 1) \o SubSeq(js, j + 1, Len(js))

\* UPDATE jobs SET status='done', result=?, next_run_at=NULL WHERE id=?
DoneUpdate(js, j, result) ==
    [i \in 1..Len(js) |->
        IF i = j
        THEN [js[i] EXCEPT !.status = "done", !.result = result, !.next_run_at = NULL]
        ELSE js[i]]

finish(w) ==
    /\ pc[w] = "finish"
    /\ wlock = 0
    /\ jobs' = DoneUpdate(jobs, job_id[w], PassedResult(rec[w]))
    /\ nfinish' = [nfinish EXCEPT ![job_id[w]] = @ + 1]
    /\ pc' = [pc EXCEPT ![w] = "poll"]
    /\ job_id' = [job_id EXCEPT ![w] = 0]
    /\ rec' = [rec EXCEPT ![w] = 0]
    /\ UNCHANGED <<now, wlock, row, spc, sjob, claims, episodes, runs, nfail>>
    /\ UNCHANGED ext

\* ------------------------------------------------------------------ fail
\* the cap test off by one: new_attempts > max(1, SQLQ_MAX_ATTEMPTS)
Terminal_strict(new_attempts) == new_attempts > Max(1, SQLQ_MAX_ATTEMPTS)

\* terminal = new_attempts >= max(1, SQLQ_MAX_ATTEMPTS)
Terminal(new_attempts) == new_attempts >= Max(1, SQLQ_MAX_ATTEMPTS)

\* _next_delay() without the exponent
NextDelays_constant(attempts) ==
    LET base  == Max(1, SQLQ_RETRY_BASE_SEC)
    IN  base..(base + (base \div 4))

\* _next_delay: int(delay + uniform(0, 0.25 * delay)), delay = base * 2**exp
NextDelays(attempts) ==
    LET exp   == Max(0, attempts)
        base  == Max(1, SQLQ_RETRY_BASE_SEC)
        delay == base * Pow2(exp)
    IN  delay..(delay + (delay \div 4))

\* the terminal UPDATE without its next_run_at=NULL
ErrorUpdate_keeps_next_run_at(js, j, new_attempts, message) ==
    [js EXCEPT ![j].status = "error",
               ![j].result = ErrPayload(message, new_attempts),
               ![j].attempts = new_attempts,
               ![j].last_error = message]

\* UPDATE jobs SET status='error', result=?, attempts=?, last_error=?,
\*                 next_run_at=NULL WHERE id=?
ErrorUpdate(js, j, new_attempts, message) ==
    [js EXCEPT ![j].status = "error",
               ![j].result = ErrPayload(message, new_attempts),
               ![j].attempts = new_attempts,
               ![j].last_error = message,
               ![j].next_run_at = NULL]

\* the requeueing UPDATE without its status column: the row stays claimed
RequeueUpdate_stays_claimed(js, j, new_attempts, message, next_run_at) ==
    [js EXCEPT ![j].attempts = new_attempts,
               ![j].last_error = message,
               ![j].next_run_at = next_run_at]

\* the requeueing UPDATE without its next_run_at column
RequeueUpdate_no_backoff(js, j, new_attempts, message, next_run_at) ==
    [js EXCEPT ![j].status = "queued",
               ![j].attempts = new_attempts,
               ![j].last_error = message]

\* UPDATE jobs SET status='queued', attempts=?, last_error=?, next_run_at=?
\*  WHERE id=?
RequeueUpdate(js, j, new_attempts, message, next_run_at) ==
    [js EXCEPT ![j].status = "queued",
               ![j].attempts = new_attempts,
               ![j].last_error = message,
               ![j].next_run_at = next_run_at]

\* row = SELECT attempts FROM jobs WHERE id=?  (outside any transaction)
fail_select(w) ==
    /\ pc[w] = "fail"
    /\ row' = [row EXCEPT ![w] = jobs[job_id[w]].attempts]
    /\ pc' = [pc EXCEPT ![w] = "fail_update"]
    /\ UNCHANGED <<jobs, now, wlock, job_id, rec, spc, sjob, hist>>
    /\ UNCHANGED ext

\* the UPDATE of fail() and its commit
fail(w) ==
    /\ pc[w] = "fail_update"
    /\ wlock = 0
    /\ LET j            == job_id[w]
           new_attempts == row[w] + 1
       IN  IF Terminal(new_attempts)
           THEN /\ jobs' = ErrorUpdate(jobs, j, new_attempts, FailMessage)
                /\ UNCHANGED episodes
           ELSE /\ \E delay \in NextDelays(row[w]) :
                      jobs' = RequeueUpdate(jobs, j, new_attempts, FailMessage, now + delay)
                /\ episodes' = [episodes EXCEPT ![j] = @ + 1]
    /\ nfail' = [nfail EXCEPT ![job_id[w]] = @ + 1]
    /\ pc' = [pc EXCEPT ![w] = "poll"]
    /\ job_id' = [job_id EXCEPT ![w] = 0]
    /\ rec' = [rec EXCEPT ![w] = 0]
    /\ row' = [row EXCEPT ![w] = 0]
    /\ UNCHANGED <<now, wlock, spc, sjob, claims, runs, nfinish>>
    /\ UNCHANGED ext

\* ----------------------------------------------------------------- clock
Tick ==
    /\ now < MaxTime
    /\ now' = now + 1
    /\ UNCHANGED <<jobs, wlock, pc, job_id, rec, row, spc, sjob, hist>>
    /\ UNCHANGED ext

\* ------------------------------------------------ the client of the queue
MaxApiJobs == 1
MaxTaskLen == 2

TaskChars == {"a", "A", " "}
TaskTexts == UNION {[1..n -> TaskChars] : n \in 0..MaxTaskLen}

\* the task argument of enqueue(): a str, or None when it is missing
StrTask(chars) == [type |-> "str", chars |-> chars]
NoneTask == [type |-> "NoneType", chars |-> <<>>]
TaskArgs == {StrTask(chars) : chars \in TaskTexts} \cup {NoneTask}

\* the payload argument of enqueue()
Payloads == {PyNone, PyDict("{}"), PyDict("{\"k\": 1}"), PyList("[]"), PyList("[1]")}

\* str(task or "")
StrOrEmpty(task) == IF task.type = "NoneType" THEN <<>> ELSE task.chars

\* str.lower()
lower(t) == [i \in 1..Len(t) |-> IF t[i] = "A" THEN "a" ELSE t[i]]

\* str.strip()
RECURSIVE lstrip(_)
lstrip(t) == IF t # <<>> /\ Head(t) = " " THEN lstrip(Tail(t)) ELSE t

RECURSIVE rstrip(_)
rstrip(t) ==
    IF t # <<>> /\ t[Len(t)] = " " THEN rstrip(SubSeq(t, 1, Len(t) - 1)) ELSE t

trim(t) == rstrip(lstrip(t))

\* INSERT INTO jobs(task, payload, status, priority, next_run_at, attempts)
\* VALUES(?, ?, 'queued', int(priority), int(not_before) if not_before else
\* None, 0): the row with its text columns
NewRow(task, payload_json, priority, not_before) ==
    [task        |-> task,
     payload     |-> payload_json,
     status      |-> "queued",
     result      |-> "NULL",
     attempts    |-> 0,
     priority    |-> priority,
     next_run_at |-> IF not_before # NULL /\ not_before # 0 THEN not_before ELSE NULL,
     last_error  |-> "NULL"]

\* enqueue() without its test of the task
enqueue_item_unchecked(task_arg, payload_arg, priority, not_before) ==
    /\ call' = [task |-> task_arg, payload |-> payload_arg]
    /\ Len(jobs) < MaxApiJobs
    /\ jobs' = Append(jobs, NewRow(StrOrEmpty(task_arg),
                                   json_dumps(Or(payload_arg, PyDict("{}"))),
                                   priority, not_before))
    /\ ret' = Len(jobs) + 1
    /\ exc' = ""
    /\ UNCHANGED <<now, wlock, pc, job_id, rec, row, spc, sjob, hist,
                   processed, max_jobs, store, loaded, mig, web, reg, pipe>>

\* enqueue(task=..., payload=..., priority=..., not_before=...) as the
\* client calls it: ValueError before the database is opened, or the INSERT
\* and return int(cur.lastrowid)
enqueue_item(task_arg, payload_arg, priority, not_before) ==
    LET task    == StrOrEmpty(task_arg)
        payload == Or(payload_arg, PyDict("{}"))
    IN  /\ call' = [task |-> task_arg, payload |-> payload_arg]
        /\ IF task = <<>>
           THEN /\ exc' = "ValueError"
                /\ UNCHANGED <<jobs, ret>>
           ELSE /\ Len(jobs) < MaxApiJobs
                /\ jobs' = Append(jobs, NewRow(task, json_dumps(payload),
                                               priority, not_before))
                /\ ret' = Len(jobs) + 1
                /\ exc' = ""
        /\ UNCHANGED <<now, wlock, pc, job_id, rec, row, spc, sjob, hist,
                       processed, max_jobs, store, loaded, mig, web, reg, pipe>>

\* load() of an id that has no row: {}
NoRecord ==
    [id |-> 0, task |-> <<>>, payload |-> PyDict("{}"), status |-> "NULL",
     result |-> PyNone]

\* no enqueue() call made yet
NoCall == [task |-> NoneTask, payload |-> PyNone]

\* load(job_id)
load(id) ==
    /\ loaded' =
        IF id \in 1..Len(jobs)
        THEN [id      |-> id,
              task    |-> jobs[id].task,
              payload |-> Or(json_loads_maybe(jobs[id].payload), PyDict("{}")),
              status  |-> jobs[id].status,
              result  |-> json_loads_maybe(jobs[id].result)]
        ELSE NoRecord
    /\ UNCHANGED <<jobs, now, wlock, pc, job_id, rec, row, spc, sjob, hist,
                   processed, max_jobs, store, call, ret, exc, mig, web, reg, pipe>>

\* what route() and the handlers behind it hand to _normalize_result
RawResults ==
    {PyDict("{\"status\": \"error\"}"), PyDict("{\"ok\": true}"),
     PyStr("{}"), PyStr("[]"), PyStr("oops"), PyBytes("oops"),
     PyList("[1]"), PyNone}

\* bytes.decode("utf-8", errors="replace")
Decode(value) == IF value.type = "bytes" THEN PyStr(value.s) ELSE value

\* the handler's value handed on as it came
normalize_result_identity(raw) == raw

\* _normalize_result(raw) of services/worker/main.py
normalize_result(raw) ==
    LET r == Decode(raw) IN
    IF r.type = "str"
    THEN IF IsJson(r.s)
         THEN IF json_loads(r.s).type = "dict"
              THEN json_loads(r.s)
              ELSE OkData(json_loads(r.s))
         ELSE OkData(r)
    ELSE IF r.type = "dict" THEN r
    ELSE OkData(r)

\* _normalize_result_for_storage(result) of sqlite_queue
normalize_result_for_storage(result) ==
    LET r == Decode(result) IN
    IF r.type = "str"
    THEN IF IsJson(r.s) THEN r.s ELSE json_dumps(OkData(r))
    ELSE json_dumps(r)

\* one turn of main()'s loop for a task that process_job() passes to the
\* router: dequeue(), load(), _normalize_result(_call_router(...)), finish()
work_once(raw) ==
    LET j == SelectReady(jobs, now) IN
    /\ j # 0
    /\ jobs' = DoneUpdate(ClaimUpdate(jobs, j), j,
                          normalize_result_for_storage(normalize_result(raw)))
    /\ UNCHANGED <<now, wlock, pc, job_id, rec, row, spc, sjob, hist, ext>>

NextApi ==
    \/ \E task_arg \in TaskArgs, payload_arg \in Payloads,
          priority \in 0..MaxPriority,
          not_before \in {NULL} \cup (0..MaxNotBefore) :
            enqueue_item(task_arg, payload_arg, priority, not_before)
    \/ \E id \in 1..(MaxApiJobs + 1) : load(id)
    \/ \E raw \in RawResults : work_once(raw)

\* finish(job_id, result) as any caller may call it, whatever the status of
\* the row: _normalize_result_for_storage and the UPDATE ... WHERE id=?
finish_item(id, result) ==
    /\ id \in 1..Len(jobs)
    /\ call' = [id |-> id, result |-> result]
    /\ jobs' = DoneUpdate(jobs, id, normalize_result_for_storage(result))
    /\ UNCHANGED <<now, wlock, pc, job_id, rec, row, spc, sjob, hist,
                   processed, max_jobs, store, ret, exc, loaded, mig, web, reg, pipe>>

NextFinish ==
    \/ \E task_arg \in TaskArgs, payload_arg \in Payloads :
            enqueue_item(task_arg, payload_arg, 0, NULL)
    \/ \E id \in 1..(MaxApiJobs + 1) : load(id)
    \/ \E id \in 1..MaxApiJobs, result \in Atoms \cup {PyBytes("oops")} :
            finish_item(id, result)

\* ------------------------------------------------------------ the schema
\* DDL_JOBS: the columns of CREATE TABLE IF NOT EXISTS jobs
BaseCols == <<"id", "task", "payload", "status", "result">>

\* _OPTIONAL_COLS, in the order of the dict
OptionalCols == <<"attempts", "next_run_at", "priority", "last_error">>

\* the keys of HANDLERS once services.agents is imported: the built-ins and
\* the orchestrator
BuiltIns ==
    {<<"p", "l", "a", "n">>, <<"c", "o", "d", "e", "g", "e", "n">>,
     <<"e", "x", "e", "c", "u", "t", "e">>, <<"a", "n", "a", "l", "y", "z", "e">>,
     <<"r", "e", "p", "o", "r", "t">>, <<"p", "i", "p", "e", "l", "i", "n", "e">>}

\* the registry as the import leaves it, the pipeline flag unset, and no
\* worker holding a result
TaskIdle ==
    /\ HANDLERS = BuiltIns
    /\ reg_exc = ""
    /\ enable_pipeline = FALSE
    /\ res = [w \in Workers |-> NullResult]
    /\ harness = {}

\* the full schema in place, no process inside init(), and an application
\* without API keys or rate limit that has received no request
IdleInit ==
    /\ TaskIdle
    /\ columns = BaseCols \o OptionalCols
    /\ idx_jobs_ready = TRUE
    /\ ipc = [p \in Workers |-> [at |-> "idle", i |-> 0]]
    /\ cols = [p \in Workers |-> {}]
    /\ allowed_keys = {}
    /\ rate_n = 0
    /\ rate_win = 0
    /\ hits = <<>>
    /\ recent_tasks = <<>>
    /\ resp = [n |-> 0, method |-> "", path |-> "", key |-> "", client |-> "",
               status |-> 0, job_id |-> 0]
    /\ admitted = <<>>

\* ------------------------------------------------------------- the system
\* WORKER_MAX_JOBS and WORKER_RUN_ONCE unset: max_jobs is None and the
\* counter processed is never read; no API client besides the Enqueue below
ExtInit ==
    /\ processed = [w \in Workers |-> 0]
    /\ max_jobs = [w \in Workers |-> NULL]
    /\ store = TRUE
    /\ call = NoCall
    /\ ret = 0
    /\ exc = ""
    /\ loaded = NoRecord
    /\ IdleInit

Init ==
    /\ jobs = <<>>
    /\ now = 0
    /\ wlock = 0
    /\ pc = [w \in Workers |-> "poll"]
    /\ job_id = [w \in Workers |-> 0]
    /\ rec = [w \in Workers |-> 0]
    /\ row = [w \in Workers |-> 0]
    /\ spc = "poll"
    /\ sjob = 0
    /\ claims = [j \in JobIds |-> 0]
    /\ episodes = [j \in JobIds |-> 0]
    /\ runs = [j \in JobIds |-> 0]
    /\ nfail = [j \in JobIds |-> 0]
    /\ nfinish = [j \in JobIds |-> 0]
    /\ ExtInit

Enqueue ==
    \E fail_times \in 0..MaxFailTimes, priority \in 0..MaxPriority,
       not_before \in {NULL} \cup (0..MaxNotBefore) :
        enqueue("fail_n", fail_times, priority, not_before)

Next ==
    \/ Enqueue
    \/ \E w \in Workers : dequeue_begin(w)
    \/ \E w \in Workers : dequeue(w)
    \/ \E w \in Workers : process_job(w)
    \/ \E w \in Workers : finish(w)
    \/ \E w \in Workers : fail_select(w)
    \/ \E w \in Workers : fail(w)
    \/ Tick

Spec == Init /\ [][Next]_vars

\* the empty table at second MaxNotBefore
ApiInit ==
    /\ jobs = <<>>
    /\ now = MaxNotBefore
    /\ wlock = 0
    /\ pc = [w \in Workers |-> "poll"]
    /\ job_id = [w \in Workers |-> 0]
    /\ rec = [w \in Workers |-> 0]
    /\ row = [w \in Workers |-> 0]
    /\ spc = "poll"
    /\ sjob = 0
    /\ claims = [j \in JobIds |-> 0]
    /\ episodes = [j \in JobIds |-> 0]
    /\ runs = [j \in JobIds |-> 0]
    /\ nfail = [j \in JobIds |-> 0]
    /\ nfinish = [j \in JobIds |-> 0]
    /\ ExtInit

\* a client calling enqueue() and load() on a table that one worker drains
SpecApi == ApiInit /\ [][NextApi]_vars

\* a client calling enqueue(), finish() and load() with results of every kind
SpecFinish == ApiInit /\ [][NextFinish]_vars

\* --------------------------------------- services/queue/standalone_worker
\* SELECT id, task FROM jobs WHERE status='queued' ORDER BY id ASC LIMIT 1
SelectQueued(js) ==
    IF \A i \in 1..Len(js) : js[i].status # "queued" THEN 0
    ELSE CHOOSE i \in 1..Len(js) :
            /\ js[i].status = "queued"
            /\ \A k \in 1..Len(js) : js[k].status = "queued" => i <= k

\* UPDATE jobs SET status='running' WHERE id=? AND status='queued'
RunningUpdate(js, j) == [js EXCEPT ![j].status = "running"]

\* conn.execute("BEGIN IMMEDIATE") of claim_one_job
claim_one_job_begin ==
    /\ spc = "poll"
    /\ wlock = 0
    /\ wlock' = StandaloneId
    /\ spc' = "claim"
    /\ UNCHANGED <<jobs, now, pc, job_id, rec, row, sjob, hist>>
    /\ UNCHANGED ext

\* the rest of claim_one_job: SELECT, conditional UPDATE, COMMIT
claim_one_job ==
    /\ spc = "claim"
    /\ wlock = StandaloneId
    /\ LET j == SelectQueued(jobs) IN
        IF j = 0 \/ jobs[j].status # "queued"
        THEN /\ spc' = "poll"
             /\ UNCHANGED <<jobs, sjob>>
        ELSE /\ jobs' = RunningUpdate(jobs, j)
             /\ sjob' = j
             /\ spc' = "process"
    /\ wlock' = 0
    /\ UNCHANGED <<now, pc, job_id, rec, row, hist>>
    /\ UNCHANGED ext

\* complete_job names the column err, which the jobs table of sqlite_queue
\* does not have: its UPDATE raises, also when called from the except
\* branch of main(), and the worker dies with the job left as claimed
complete_job ==
    /\ spc = "process"
    /\ spc' = "crashed"
    /\ UNCHANGED <<jobs, now, wlock, pc, job_id, rec, row, sjob, hist>>
    /\ UNCHANGED ext

NextDirect ==
    \/ Next
    \/ claim_one_job_begin
    \/ claim_one_job
    \/ complete_job

\* sqlite_queue, its workers and the standalone worker on one TASK_DB
SpecDirect == Init /\ [][NextDirect]_vars

\* ------------------------------------------------------ a batch of jobs
\* BatchJobs jobs or fewer, enqueued before the workers start, every one
\* with a handler that succeeds (fail_n, fail_times = 0) and eligible at
\* the current second; then one worker loop or more (pc "off": a worker
\* that was not started) run with no further enqueue.
BatchInputs ==
    {NewJob("fail_n", 0, priority, not_before) :
        priority \in 0..MaxPriority, not_before \in {NULL} \cup (0..MaxNotBefore)}

BatchInit ==
    /\ jobs \in UNION {[1..m -> BatchInputs] : m \in 1..BatchJobs}
    /\ now = MaxNotBefore
    /\ wlock = 0
    /\ pc \in {f \in [Workers -> {"poll", "off"}] : \E w \in Workers : f[w] = "poll"}
    /\ job_id = [w \in Workers |-> 0]
    /\ rec = [w \in Workers |-> 0]
    /\ row = [w \in Workers |-> 0]
    /\ spc = "poll"
    /\ sjob = 0
    /\ claims = [j \in JobIds |-> 0]
    /\ episodes = [j \in JobIds |-> IF j <= Len(jobs) THEN 1 ELSE 0]
    /\ runs = [j \in JobIds |-> 0]
    /\ nfail = [j \in JobIds |-> 0]
    /\ nfinish = [j \in JobIds |-> 0]
    /\ ExtInit

NextBatch ==
    \/ \E w \in Workers : dequeue_begin(w)
    \/ \E w \in Workers : dequeue(w)
    \/ \E w \in Workers : process_job(w)
    \/ \E w \in Workers : finish(w)

\* Every started worker loop keeps running (no crash); a statement that
\* waits for the write lock gets it in the end (busy timeout of 30 s, and
\* every holder releases the lock at its commit).
FairBatch ==
    \A w \in Workers :
        /\ SF_vars(dequeue_begin(w))
        /\ WF_vars(dequeue(w))
        /\ WF_vars(process_job(w))
        /\ SF_vars(finish(w))

SpecBatch == BatchInit /\ [][NextBatch]_vars /\ FairBatch

\* ------------------------------------ main() with its exits and failures
\* The loop of services/worker/main.py once more, now with max_jobs and
\* processed, with the exceptions the sqlite_queue calls raise while TASK_DB
\* cannot be opened or written (store = FALSE), and with KeyboardInterrupt.
\* dequeue() and fail() are single steps here.  pc is "exited" after the
\* return at the quota, "stopped" after the KeyboardInterrupt branch and
\* "crashed" when an exception has left main().

\* route(): {"status": "ok", ...} or {"status": "error", ...}; neither has a
\* keys ok, error or attempts.  The field ok of a result is: result.get("ok")
\* is true; n = 0 tells the stored dict from the NULL of a new row
RouteResult == [ok |-> FALSE, error |-> "NULL", n |-> 0]

\* f"{type(e).__name__}: {e}" for the sqlite3.OperationalError of finish()
StoreMessage == "OperationalError: unable to open database file"

\* WORKER_MAX_JOBS values, NULL when unset
EnvMaxJobs == {NULL, 0, 1, 2}

\* max_jobs = int(max_jobs_env) if max_jobs_env else None;
\* if run_once and (max_jobs is None or max_jobs > 1): max_jobs = 1
MaxJobsOf(run_once, max_jobs_env) ==
    IF run_once /\ (max_jobs_env = NULL \/ max_jobs_env > 1) THEN 1
    ELSE max_jobs_env

\* job_id = _q().dequeue(); on None: return at the quota, else sleep and
\* continue
main_dequeue(w) ==
    /\ pc[w] = "poll"
    /\ IF ~store
       THEN /\ pc' = [pc EXCEPT ![w] = "crashed"]
            /\ UNCHANGED <<jobs, job_id, claims>>
       ELSE LET j == SelectReady(jobs, now) IN
            IF j = 0 \/ ClaimRowcount(jobs, j) = 0
            THEN /\ pc' = [pc EXCEPT ![w] =
                            IF max_jobs[w] # NULL /\ processed[w] >= max_jobs[w]
                            THEN "exited" ELSE "poll"]
                 /\ UNCHANGED <<jobs, job_id, claims>>
            ELSE /\ jobs' = ClaimUpdate(jobs, j)
                 /\ job_id' = [job_id EXCEPT ![w] = j]
                 /\ claims' = [claims EXCEPT ![j] = @ + 1]
                 /\ pc' = [pc EXCEPT ![w] = "load"]
    /\ UNCHANGED <<now, wlock, rec, row, spc, sjob, episodes, runs, nfail,
                   nfinish, processed, max_jobs, store, call, ret, exc,
                   loaded, mig, web, reg, pipe>>

\* rec = _q().load(job_id), outside the inner try; result = process_job(rec)
main_process_job(w) ==
    /\ pc[w] = "load"
    /\ LET j == job_id[w] IN
        IF ~store
        THEN /\ pc' = [pc EXCEPT ![w] = "crashed"]
             /\ UNCHANGED <<rec, runs>>
        ELSE /\ rec' = [rec EXCEPT ![w] = jobs[j].attempts]
             /\ runs' = [runs EXCEPT ![j] = @ + 1]
             /\ pc' = [pc EXCEPT ![w] =
                        IF /\ jobs[j].task = "fail_n"
                           /\ FailNRaises(jobs[j].attempts, jobs[j].fail_times)
                        THEN "fail" ELSE "finish"]
    /\ UNCHANGED <<jobs, now, wlock, job_id, row, spc, sjob, claims, episodes,
                   nfail, nfinish, processed, max_jobs, store, call, ret, exc,
                   loaded, mig, web, reg, pipe>>

\* _q().finish(job_id, result); processed += 1.  An exception of finish()
\* is caught by the except Exception of the inner try
main_finish(w) ==
    /\ pc[w] = "finish"
    /\ LET j == job_id[w] IN
        IF ~store
        THEN /\ pc' = [pc EXCEPT ![w] = "fail_store"]
             /\ UNCHANGED <<jobs, job_id, rec, nfinish, processed>>
        ELSE /\ jobs' = DoneUpdate(jobs, j,
                            IF jobs[j].task = "fail_n" THEN PassedResult(rec[w])
                            ELSE RouteResult)
             /\ nfinish' = [nfinish EXCEPT ![j] = @ + 1]
             /\ processed' = [processed EXCEPT ![w] = @ + 1]
             /\ pc' = [pc EXCEPT ![w] = "poll"]
             /\ job_id' = [job_id EXCEPT ![w] = 0]
             /\ rec' = [rec EXCEPT ![w] = 0]
    /\ UNCHANGED <<now, wlock, row, spc, sjob, claims, episodes, runs, nfail,
                   max_jobs, store, call, ret, exc, loaded, mig, web, reg, pipe>>

\* except Exception as e: _q().fail(job_id, f"{type(e).__name__}: {e}");
\* an exception of fail() leaves main()
main_fail(w) ==
    /\ pc[w] \in {"fail", "fail_store"}
    /\ LET j            == job_id[w]
           new_attempts == jobs[j].attempts + 1
           message      == IF pc[w] = "fail" THEN FailMessage ELSE StoreMessage
       IN  IF ~store
           THEN /\ pc' = [pc EXCEPT ![w] = "crashed"]
                /\ UNCHANGED <<jobs, job_id, rec, episodes, nfail>>
           ELSE /\ IF Terminal(new_attempts)
                   THEN /\ jobs' = ErrorUpdate(jobs, j, new_attempts, message)
                        /\ UNCHANGED episodes
                   ELSE /\ \E delay \in NextDelays(jobs[j].attempts) :
                              jobs' = RequeueUpdate(jobs, j, new_attempts, message,
                                                    now + delay)
                        /\ episodes' = [episodes EXCEPT ![j] = @ + 1]
                /\ nfail' = [nfail EXCEPT ![j] = @ + 1]
                /\ pc' = [pc EXCEPT ![w] = "poll"]
                /\ job_id' = [job_id EXCEPT ![w] = 0]
                /\ rec' = [rec EXCEPT ![w] = 0]
    /\ UNCHANGED <<now, wlock, row, spc, sjob, claims, runs, nfinish, ext>>

\* SIGINT while main() is inside its outer try: except KeyboardInterrupt
\* prints and main() returns
KeyboardInterrupt(w) ==
    /\ pc[w] \in {"poll", "load", "finish", "fail", "fail_store"}
    /\ pc' = [pc EXCEPT ![w] = "stopped"]
    /\ UNCHANGED <<jobs, now, wlock, job_id, rec, row, spc, sjob, hist, ext>>

\* TASK_DB becomes unavailable (no permission, disk full, locked past the
\* busy timeout of 30 s) or available again
StoreFlips ==
    /\ store' = ~store
    /\ UNCHANGED <<jobs, now, wlock, pc, job_id, rec, row, spc, sjob, hist,
                   processed, max_jobs, call, ret, exc, loaded, mig, web, reg, pipe>>

\* a fail_n job, or a job of a task that process_job() hands to the router
LoopEnqueue ==
    /\ store
    /\ \/ \E fail_times \in 0..MaxFailTimes : enqueue("fail_n", fail_times, 0, NULL)
       \/ enqueue("echo", 0, 0, NULL)

\* one worker started, with any setting of WORKER_RUN_ONCE, WORKER_MAX_JOBS
LoopInit ==
    /\ jobs = <<>>
    /\ now = 0
    /\ wlock = 0
    /\ pc = [w \in Workers |-> IF w = 1 THEN "poll" ELSE "off"]
    /\ job_id = [w \in Workers |-> 0]
    /\ rec = [w \in Workers |-> 0]
    /\ row = [w \in Workers |-> 0]
    /\ spc = "poll"
    /\ sjob = 0
    /\ claims = [j \in JobIds |-> 0]
    /\ episodes = [j \in JobIds |-> 0]
    /\ runs = [j \in JobIds |-> 0]
    /\ nfail = [j \in JobIds |-> 0]
    /\ nfinish = [j \in JobIds |-> 0]
    /\ processed = [w \in Workers |-> 0]
    /\ \E run_once \in BOOLEAN, max_jobs_env \in EnvMaxJobs :
            max_jobs = [w \in Workers |-> MaxJobsOf(run_once, max_jobs_env)]
    /\ store = TRUE
    /\ call = NoCall
    /\ ret = 0
    /\ exc = ""
    /\ loaded = NoRecord
    /\ IdleInit

NextLoop ==
    \/ LoopEnqueue
    \/ \E w \in Workers : main_dequeue(w)
    \/ \E w \in Workers : main_process_job(w)
    \/ \E w \in Workers : main_finish(w)
    \/ \E w \in Workers : main_fail(w)
    \/ \E w \in Workers : KeyboardInterrupt(w)
    \/ StoreFlips
    \/ Tick

SpecLoop == LoopInit /\ [][NextLoop]_vars

\* main() started again with a startup sweep that requeues in_progress rows
main_start_sweep(w) ==
    /\ pc[w] \in {"exited", "stopped", "crashed"}
    /\ pc' = [pc EXCEPT ![w] = IF store THEN "poll" ELSE "crashed"]
    /\ jobs' = [i \in 1..Len(jobs) |->
                IF store /\ jobs[i].status = "in_progress"
                THEN [jobs[i] EXCEPT !.status = "queued"] ELSE jobs[i]]
    /\ job_id' = [job_id EXCEPT ![w] = 0]
    /\ rec' = [rec EXCEPT ![w] = 0]
    /\ processed' = [processed EXCEPT ![w] = 0]
    /\ UNCHANGED <<now, wlock, row, spc, sjob, hist, max_jobs, store, call,
                   ret, exc, loaded, mig, web, reg, pipe>>

\* a new worker process in the place of one that has ended: main() from its
\* first line, _q().init() (CREATE TABLE IF NOT EXISTS, the missing optional
\* columns, the index: no row is written) and processed = 0; init() raises
\* while TASK_DB cannot be opened
main_start(w) ==
    /\ pc[w] \in {"exited", "stopped", "crashed"}
    /\ pc' = [pc EXCEPT ![w] = IF store THEN "poll" ELSE "crashed"]
    /\ job_id' = [job_id EXCEPT ![w] = 0]
    /\ rec' = [rec EXCEPT ![w] = 0]
    /\ processed' = [processed EXCEPT ![w] = 0]
    /\ UNCHANGED <<jobs, now, wlock, row, spc, sjob, hist, max_jobs, store,
                   call, ret, exc, loaded, mig, web, reg, pipe>>

NextRestart ==
    \/ NextLoop
    \/ \E w \in Workers : main_start(w)

\* the worker loop with its exits and failures, started again after each
SpecRestart == LoopInit /\ [][NextRestart]_vars

\* ----------------------------------------------- init() and _migrate()
\* Each process runs init() = _conn(): connect, the PRAGMAs, _migrate(con),
\* commit.  The connection is in python's default transaction mode, which
\* opens no transaction before DDL: every statement of _migrate commits on
\* its own, and the statements of the processes interleave.  A row of the
\* table is a function on its columns other than id, which is its position.

\* _conn() up to the call of _migrate
init_begin(p) ==
    /\ ipc[p].at \in {"idle", "done"}
    /\ ipc' = [ipc EXCEPT ![p] = [at |-> "create", i |-> 0]]
    /\ UNCHANGED <<jobs, now, wlock, pc, job_id, rec, row, spc, sjob, hist,
                   processed, max_jobs, store, call, ret, exc, loaded,
                   columns, idx_jobs_ready, cols, web, reg, pipe>>

\* con.execute(DDL_JOBS)
migrate_create(p) ==
    /\ ipc[p].at = "create"
    /\ columns' = IF columns = <<>> THEN BaseCols ELSE columns
    /\ ipc' = [ipc EXCEPT ![p] = [at |-> "table_info", i |-> 0]]
    /\ UNCHANGED <<jobs, now, wlock, pc, job_id, rec, row, spc, sjob, hist,
                   processed, max_jobs, store, call, ret, exc, loaded,
                   idx_jobs_ready, cols, web, reg, pipe>>

\* cols = {row[1] for row in con.execute("PRAGMA table_info(jobs)")}
migrate_table_info(p) ==
    /\ ipc[p].at = "table_info"
    /\ cols' = [cols EXCEPT ![p] = {columns[k] : k \in 1..Len(columns)}]
    /\ ipc' = [ipc EXCEPT ![p] = [at |-> "alter", i |-> 1]]
    /\ UNCHANGED <<jobs, now, wlock, pc, job_id, rec, row, spc, sjob, hist,
                   processed, max_jobs, store, call, ret, exc, loaded,
                   columns, idx_jobs_ready, web, reg, pipe>>

\* _safe_add_column with every OperationalError raised again
safe_add_column_strict(p) ==
    LET col    == OptionalCols[ipc[p].i]
        exists == \E k \in 1..Len(columns) : columns[k] = col
    IN  /\ ipc[p].at = "alter"
        /\ IF col \in cols[p] \/ exists
           THEN UNCHANGED <<jobs, columns>>
           ELSE /\ columns' = Append(columns, col)
                /\ jobs' = [j \in 1..Len(jobs) |->
                             [c \in DOMAIN jobs[j] \cup {col} |->
                                IF c \in DOMAIN jobs[j] THEN jobs[j][c]
                                ELSE IF col \in {"attempts", "priority"}
                                     THEN 0 ELSE NULL]]
        /\ ipc' = [ipc EXCEPT ![p] =
                     IF col \notin cols[p] /\ exists
                     THEN [at |-> "raised", i |-> 0]
                     ELSE IF ipc[p].i < Len(OptionalCols)
                     THEN [at |-> "alter", i |-> ipc[p].i + 1]
                     ELSE [at |-> "index", i |-> 0]]
        /\ UNCHANGED <<now, wlock, pc, job_id, rec, row, spc, sjob, hist,
                       processed, max_jobs, store, call, ret, exc, loaded,
                       idx_jobs_ready, cols, web, reg, pipe>>

\* one turn of the for loop of _migrate: if col not in cols:
\* _safe_add_column(con, col, ddl).  ALTER TABLE jobs ADD COLUMN gives the
\* rows the column's default (0 for attempts and priority, else NULL); on a
\* column that exists it raises "duplicate column name", which
\* _safe_add_column swallows
safe_add_column(p) ==
    LET col    == OptionalCols[ipc[p].i]
        exists == \E k \in 1..Len(columns) : columns[k] = col
    IN  /\ ipc[p].at = "alter"
        /\ IF col \in cols[p] \/ exists
           THEN UNCHANGED <<jobs, columns>>
           ELSE /\ columns' = Append(columns, col)
                /\ jobs' = [j \in 1..Len(jobs) |->
                             [c \in DOMAIN jobs[j] \cup {col} |->
                                IF c \in DOMAIN jobs[j] THEN jobs[j][c]
                                ELSE IF col \in {"attempts", "priority"}
                                     THEN 0 ELSE NULL]]
        /\ ipc' = [ipc EXCEPT ![p] =
                     IF ipc[p].i < Len(OptionalCols)
                     THEN [at |-> "alter", i |-> ipc[p].i + 1]
                     ELSE [at |-> "index", i |-> 0]]
        /\ UNCHANGED <<now, wlock, pc, job_id, rec, row, spc, sjob, hist,
                       processed, max_jobs, store, call, ret, exc, loaded,
                       idx_jobs_ready, cols, web, reg, pipe>>

\* CREATE INDEX IF NOT EXISTS idx_jobs_ready ON jobs(status, next_run_at,
\* priority, id), which raises "no such column" on a table without them;
\* then con.commit() and con.close()
migrate_index(p) ==
    /\ ipc[p].at = "index"
    /\ IF {"status", "next_run_at", "priority", "id"}
            \subseteq {columns[k] : k \in 1..Len(columns)}
       THEN /\ idx_jobs_ready' = TRUE
            /\ ipc' = [ipc EXCEPT ![p] = [at |-> "done", i |-> 0]]
       ELSE /\ ipc' = [ipc EXCEPT ![p] = [at |-> "raised", i |-> 0]]
            /\ UNCHANGED idx_jobs_ready
    /\ UNCHANGED <<jobs, now, wlock, pc, job_id, rec, row, spc, sjob, hist,
                   processed, max_jobs, store, call, ret, exc, loaded,
                   columns, cols, web, reg, pipe>>

\* the tables init() starts from: none, the table of DDL_JOBS alone, one
\* with some or all of the optional columns; with no row or one
MigInit ==
    /\ \E opt \in SUBSET {1, 2, 3, 4}, table \in BOOLEAN,
          status \in {"queued", "done"}, rows \in 0..1 :
        LET added == SelectSeq(OptionalCols,
                        LAMBDA c : \E k \in opt : OptionalCols[k] = c)
        IN  /\ columns = IF table THEN BaseCols \o added ELSE <<>>
            /\ idx_jobs_ready = (table /\ opt = {1, 2, 3, 4})
            /\ jobs = [j \in 1..(IF table THEN rows ELSE 0) |->
                        [c \in {columns[k] : k \in 2..Len(columns)} |->
                            CASE c = "task" -> "plan"
                              [] c = "payload" -> "{}"
                              [] c = "status" -> status
                              [] c = "result" -> "NULL"
                              [] c \in {"attempts", "priority"} -> 0
                              [] OTHER -> NULL]]
    /\ now = 0
    /\ wlock = 0
    /\ pc = [w \in Workers |-> "off"]
    /\ job_id = [w \in Workers |-> 0]
    /\ rec = [w \in Workers |-> 0]
    /\ row = [w \in Workers |-> 0]
    /\ spc = "poll"
    /\ sjob = 0
    /\ claims = [j \in JobIds |-> 0]
    /\ episodes = [j \in JobIds |-> 0]
    /\ runs = [j \in JobIds |-> 0]
    /\ nfail = [j \in JobIds |-> 0]
    /\ nfinish = [j \in JobIds |-> 0]
    /\ processed = [w \in Workers |-> 0]
    /\ max_jobs = [w \in Workers |-> NULL]
    /\ store = TRUE
    /\ call = NoCall
    /\ ret = 0
    /\ exc = ""
    /\ loaded = NoRecord
    /\ ipc = [p \in Workers |-> [at |-> "idle", i |-> 0]]
    /\ cols = [p \in Workers |-> {}]
    /\ allowed_keys = {}
    /\ rate_n = 0
    /\ rate_win = 0
    /\ hits = <<>>
    /\ recent_tasks = <<>>
    /\ resp = [n |-> 0, method |-> "", path |-> "", key |-> "", client |-> "",
               status |-> 0, job_id |-> 0]
    /\ admitted = <<>>
    /\ TaskIdle

NextMig ==
    \/ \E p \in Workers : init_begin(p)
    \/ \E p \in Workers : migrate_create(p)
    \/ \E p \in Workers : migrate_table_info(p)
    \/ \E p \in Workers : safe_add_column(p)
    \/ \E p \in Workers : migrate_index(p)

\* the processes calling init() concurrently, any number of times
SpecMig == MigInit /\ [][NextMig]_vars

\* ------------------------------------------------- the HTTP application
\* The app of create_app(): ApiKeyAndRateLimitMiddleware around the
\* handlers, TASK_DB set, one worker with WORKER_ENABLE_PIPELINE unset.  A
\* request is one step: dispatch, the handler and the queue calls it makes.
MaxRequests == 3
MaxRecent == 2
MaxHttpTime == 3

\* the loop dropping the hit that is exactly rate_win old as well
RECURSIVE DropOld_eager(_, _, _)
DropOld_eager(dq, t, win) ==
    IF dq # <<>> /\ t - Head(dq) >= win THEN DropOld_eager(Tail(dq), t, win)
    ELSE dq

\* while dq and now - dq[0] > self.rate_win: dq.popleft()
RECURSIVE DropOld(_, _, _)
DropOld(dq, t, win) ==
    IF dq # <<>> /\ t - Head(dq) > win THEN DropOld(Tail(dq), t, win) ELSE dq

\* key = request.headers.get("X-API-Key") or "anon"
Bucket(key) == IF key # "" THEN key ELSE "anon"

\* dispatch() with the 401 answer left out
Unauthorized_never(key) == FALSE

\* if self.allowed_keys: if not k or k not in self.allowed_keys: 401
Unauthorized(key) ==
    allowed_keys # {} /\ (key = "" \/ key \notin allowed_keys)

\* POST /tasks: dispatch(), then post_task() with MAX_REQUEST_BYTES and
\* TASK_LOG unset: the event goes to the ring, then q.init() and
\* q.enqueue(task=task, payload=payload, priority=0), whose ValueError
\* becomes a 500
post_tasks(key, client, task_arg, payload) ==
    LET request == [n |-> resp.n + 1, method |-> "POST", path |-> "/tasks",
                    key |-> key, client |-> client]
        limited == rate_n > 0 /\ rate_win > 0
        key_    == Bucket(key)
        dq      == IF key_ \in DOMAIN hits
                   THEN DropOld(hits[key_], now, rate_win) ELSE <<>>
        task    == trim(StrOrEmpty(task_arg))
        event   == [task |-> task, payload |-> payload]
    IN  /\ resp.n < MaxRequests
        /\ IF Unauthorized(key)
           THEN /\ resp' = request @@ [status |-> 401, job_id |-> 0]
                /\ UNCHANGED <<jobs, episodes, hits, recent_tasks, admitted>>
           ELSE IF limited /\ Len(dq) >= rate_n
           THEN /\ resp' = request @@ [status |-> 429, job_id |-> 0]
                /\ hits' = [b \in DOMAIN hits \cup {key_} |->
                              IF b = key_ THEN dq ELSE hits[b]]
                /\ UNCHANGED <<jobs, episodes, recent_tasks, admitted>>
           ELSE /\ IF limited
                   THEN /\ hits' = [b \in DOMAIN hits \cup {key_} |->
                                      IF b = key_ THEN Append(dq, now)
                                      ELSE hits[b]]
                        /\ admitted' = Append(admitted,
                                [bucket |-> key_, t |-> now, key |-> key,
                                 client |-> client])
                   ELSE UNCHANGED <<hits, admitted>>
                /\ recent_tasks' =
                        IF Len(recent_tasks) < MaxRecent
                        THEN Append(recent_tasks, event)
                        ELSE Append(Tail(recent_tasks), event)
                /\ IF task = <<>>
                   THEN /\ resp' = request @@ [status |-> 500, job_id |-> 0]
                        /\ UNCHANGED <<jobs, episodes>>
                   ELSE /\ Len(jobs) < MaxJobs
                        /\ jobs' = Append(jobs, NewJob(task, 0, 0, NULL)
                                                @@ [payload |-> payload])
                        /\ episodes' = [episodes EXCEPT ![Len(jobs) + 1] = 1]
                        /\ resp' = request @@ [status |-> 200,
                                               job_id |-> Len(jobs) + 1]
        /\ UNCHANGED <<now, wlock, pc, job_id, rec, row, spc, sjob, claims,
                       runs, nfail, nfinish, processed, max_jobs, store, call,
                       ret, exc, loaded, mig, allowed_keys, rate_n, rate_win, reg, pipe>>

\* a request that is not POST /tasks: dispatch() calls call_next at once.
\* GET /results/{id} is get_result(): 404 without a row, else 200 with
\* item = {status, result, error}; the other handlers answer 200
other_request(method, path, id, key, client) ==
    LET request == [n |-> resp.n + 1, method |-> method, path |-> path,
                    key |-> key, client |-> client, job_id |-> id]
    IN  /\ resp.n < MaxRequests
        /\ resp' =
            IF method = "GET" /\ path = "/results"
            THEN IF id \in 1..Len(jobs)
                 THEN request @@ [status |-> 200,
                                  ok |-> jobs[id].status = "done",
                                  item |-> [status |-> jobs[id].status,
                                            result |-> jobs[id].result]]
                 ELSE request @@ [status |-> 404]
            ELSE request @@ [status |-> 200]
        /\ UNCHANGED <<jobs, now, wlock, pc, job_id, rec, row, spc, sjob, hist,
                       processed, max_jobs, store, call, ret, exc, loaded,
                       mig, allowed_keys, rate_n, rate_win, hits,
                       recent_tasks, admitted, reg, pipe>>

\* one turn of main()'s loop on a plan job: dequeue(), load(), process_job()
\* and finish().  route() returns {"status": ...} (RouteResult) whether the
\* API it posts to answers or not; with a module in the payload process_job
\* adds plan = f"{idea} via {module}" to it
plan_once ==
    LET j      == SelectReady(jobs, now)
        idea   == jobs[j].payload.idea
        module == jobs[j].payload.module
        result == IF module # ""
                  THEN RouteResult @@ [plan |-> idea \o " via " \o module]
                  ELSE RouteResult
    IN  /\ j # 0
        /\ jobs' = DoneUpdate(ClaimUpdate(jobs, j), j, result)
        /\ claims' = [claims EXCEPT ![j] = @ + 1]
        /\ runs' = [runs EXCEPT ![j] = @ + 1]
        /\ nfinish' = [nfinish EXCEPT ![j] = @ + 1]
        /\ UNCHANGED <<now, wlock, pc, job_id, rec, row, spc, sjob, episodes,
                       nfail, ext>>

\* any API_KEYS, RATE_REQUESTS and RATE_WINDOW_SEC; an empty table
HttpInit ==
    /\ jobs = <<>>
    /\ now = 0
    /\ wlock = 0
    /\ pc = [w \in Workers |-> "off"]
    /\ job_id = [w \in Workers |-> 0]
    /\ rec = [w \in Workers |-> 0]
    /\ row = [w \in Workers |-> 0]
    /\ spc = "poll"
    /\ sjob = 0
    /\ claims = [j \in JobIds |-> 0]
    /\ episodes = [j \in JobIds |-> 0]
    /\ runs = [j \in JobIds |-> 0]
    /\ nfail = [j \in JobIds |-> 0]
    /\ nfinish = [j \in JobIds |-> 0]
    /\ processed = [w \in Workers |-> 0]
    /\ max_jobs = [w \in Workers |-> NULL]
    /\ store = TRUE
    /\ call = NoCall
    /\ ret = 0
    /\ exc = ""
    /\ loaded = NoRecord
    /\ columns = BaseCols \o OptionalCols
    /\ idx_jobs_ready = TRUE
    /\ ipc = [p \in Workers |-> [at |-> "idle", i |-> 0]]
    /\ cols = [p \in Workers |-> {}]
    /\ allowed_keys \in {{}, {"k1"}}
    /\ rate_n \in {0, 1, 2}
    /\ rate_win = IF rate_n = 0 THEN 0 ELSE 2
    /\ hits = <<>>
    /\ recent_tasks = <<>>
    /\ resp = [n |-> 0, method |-> "", path |-> "", key |-> "", client |-> "",
               status |-> 0, job_id |-> 0]
    /\ admitted = <<>>
    /\ TaskIdle

NextHttp ==
    \/ \E key \in {"", "k1", "x"}, client \in {"c1", "c2"},
          task_arg \in {StrTask(<<"p", "l", "a", "n">>), StrTask(<<" ">>),
                        NoneTask} :
            post_tasks(key, client, task_arg,
                       [idea |-> "demo", module |-> "hello_mod"])
    \/ \E id \in 1..MaxJobs : other_request("GET", "/results", id, "", "c1")
    \/ \E path \in {"/health", "/ready", "/tasks"} :
            other_request("GET", path, 0, "", "c1")
    \/ other_request("OPTIONS", "/tasks", 0, "", "c1")
    \/ plan_once
    \/ (now < MaxHttpTime /\ Tick)

\* the worker keeps taking turns
SpecHttp == HttpInit /\ [][NextHttp]_vars /\ WF_vars(plan_once)

\* ------------------------------------------------------- a bounded run
\* One worker started on a table of MaxJobs fail_n jobs or fewer, all queued
\* and eligible, with any setting of WORKER_RUN_ONCE and WORKER_MAX_JOBS; the
\* Store stays available, no signal arrives, nothing more is enqueued.
BoundedInputs == {NewJob("fail_n", fail_times, 0, NULL) : fail_times \in 0..MaxFailTimes}

BoundedInit ==
    /\ jobs \in UNION {[1..m -> BoundedInputs] : m \in 1..MaxJobs}
    /\ now = 0
    /\ wlock = 0
    /\ pc = [w \in Workers |-> IF w = 1 THEN "poll" ELSE "off"]
    /\ job_id = [w \in Workers |-> 0]
    /\ rec = [w \in Workers |-> 0]
    /\ row = [w \in Workers |-> 0]
    /\ spc = "poll"
    /\ sjob = 0
    /\ claims = [j \in JobIds |-> 0]
    /\ episodes = [j \in JobIds |-> IF j <= Len(jobs) THEN 1 ELSE 0]
    /\ runs = [j \in JobIds |-> 0]
    /\ nfail = [j \in JobIds |-> 0]
    /\ nfinish = [j \in JobIds |-> 0]
    /\ processed = [w \in Workers |-> 0]
    /\ \E run_once \in BOOLEAN, max_jobs_env \in EnvMaxJobs :
            max_jobs = [w \in Workers |-> MaxJobsOf(run_once, max_jobs_env)]
    /\ store = TRUE
    /\ call = NoCall
    /\ ret = 0
    /\ exc = ""
    /\ loaded = NoRecord
    /\ IdleInit

NextBounded ==
    \/ \E w \in Workers : main_dequeue(w)
    \/ \E w \in Workers : main_process_job(w)
    \/ \E w \in Workers : main_finish(w)
    \/ \E w \in Workers : main_fail(w)
    \/ Tick

\* the started worker keeps running and the clock keeps going
FairBounded ==
    /\ \A w \in Workers :
        /\ WF_vars(main_dequeue(w))
        /\ WF_vars(main_process_job(w))
        /\ WF_vars(main_finish(w))
        /\ WF_vars(main_fail(w))
    /\ WF_vars(Tick)

SpecBounded == BoundedInit /\ [][NextBounded]_vars /\ FairBounded

\* ------------------------------------------------------------- properties
Statuses == {"queued", "in_progress", "done", "error"}

\* next_run_at IS NULL OR next_run_at <= t, for row j of the table
Eligible(j, t) ==
    /\ jobs[j].status = "queued"
    /\ (jobs[j].next_run_at = NULL \/ jobs[j].next_run_at <= t)

\* worker w ends a dequeue() in this step
DequeueReturns(w) == pc[w] = "dequeue" /\ pc'[w] # "dequeue"

\* C1: a job id is returned by at most one dequeue() per time it is queued:
\* no job has more successful claims than queued episodes, and two workers
\* never hold the same claimed id.
C1_ClaimOncePerEpisode ==
    /\ \A j \in Ids : claims[j] <= episodes[j]
    /\ \A w1, w2 \in Workers :
        (w1 # w2 /\ job_id[w1] # 0) => job_id[w1] # job_id[w2]

\* a second worker is inside its dequeue transaction while the only job,
\* claimed for the second time, is held by the first
C1_Witness ==
    \E w1, w2 \in Workers :
        /\ w1 # w2
        /\ job_id[w1] # 0
        /\ jobs[job_id[w1]].status = "in_progress"
        /\ claims[job_id[w1]] = 2
        /\ Len(jobs) = 1
        /\ pc[w2] = "dequeue"

\* C3: the id a dequeue() returns is, when it is claimed, the eligible queued
\* job of highest priority and, among those, of lowest id.
C3_HighestPriorityLowestId ==
    [][\A w \in Workers :
        (DequeueReturns(w) /\ job_id'[w] # 0) =>
            LET j == job_id'[w] IN
            /\ Eligible(j, now)
            /\ \A i \in Ids \ {j} :
                Eligible(i, now) =>
                    \/ jobs[i].priority < jobs[j].priority
                    \/ jobs[i].priority = jobs[j].priority /\ i > j]_vars

\* job 2, of higher priority, is claimed while job 1, enqueued first and
\* eligible, still waits unclaimed
C3_Witness ==
    /\ Len(jobs) = 2
    /\ jobs[2].priority > jobs[1].priority
    /\ jobs[1].status = "queued"
    /\ jobs[1].next_run_at = NULL
    /\ claims[1] = 0
    /\ \E w \in Workers : job_id[w] = 2 /\ pc[w] = "load"

\* C4: dequeue() never returns a queued job whose next_run_at is later than
\* the clock, and returns None only when no queued job has next_run_at null
\* or <= now.
C4_NotBeforeNextRunAt ==
    [][\A w \in Workers :
        DequeueReturns(w) =>
            IF job_id'[w] # 0
            THEN \/ jobs[job_id'[w]].next_run_at = NULL
                 \/ jobs[job_id'[w]].next_run_at <= now
            ELSE \A i \in Ids :
                    jobs[i].status = "queued" =>
                        /\ jobs[i].next_run_at # NULL
                        /\ jobs[i].next_run_at > now]_vars

\* a job enqueued with not_before is claimed at the second its next_run_at is
\* reached, while a job requeued by fail() for a later second still waits
C4_Witness ==
    \E w \in Workers :
        /\ job_id[w] # 0
        /\ pc[w] = "load"
        /\ jobs[job_id[w]].attempts = 0
        /\ jobs[job_id[w]].next_run_at = now
        /\ \E i \in Ids :
            /\ jobs[i].status = "queued"
            /\ jobs[i].attempts >= 1
            /\ jobs[i].next_run_at > now

\* C5: every status change is queued -> in_progress by a dequeue,
\* in_progress -> done by a finish, in_progress -> queued with next_run_at
\* set or in_progress -> error by a fail.
C5_FourTransitions ==
    [][\A j \in Ids :
        jobs'[j].status # jobs[j].status =>
            \/ /\ jobs[j].status = "queued"
               /\ jobs'[j].status = "in_progress"
               /\ \E w \in Workers : DequeueReturns(w) /\ job_id'[w] = j
            \/ /\ jobs[j].status = "in_progress"
               /\ jobs'[j].status = "done"
               /\ \E w \in Workers : pc[w] = "finish" /\ job_id[w] = j
            \/ /\ jobs[j].status = "in_progress"
               /\ jobs'[j].status = "queued"
               /\ jobs'[j].next_run_at # NULL
               /\ jobs'[j].next_run_at > now
               /\ \E w \in Workers : pc[w] = "fail_update" /\ job_id[w] = j
            \/ /\ jobs[j].status = "in_progress"
               /\ jobs'[j].status = "error"
               /\ \E w \in Workers : pc[w] = "fail_update" /\ job_id[w] = j]_vars

\* one job was requeued and then finished, another failed terminally
C5_Witness ==
    \E i, j \in Ids :
        /\ jobs[i].status = "done"
        /\ jobs[i].attempts >= 1
        /\ jobs[j].status = "error"

\* C6: a job that is done or error keeps its status, result and attempts in
\* every later step and is not returned by a dequeue().
C6_TerminalIsFinal ==
    [][\A j \in Ids :
        jobs[j].status \in {"done", "error"} =>
            /\ jobs'[j].status = jobs[j].status
            /\ jobs'[j].result = jobs[j].result
            /\ jobs'[j].attempts = jobs[j].attempts
            /\ \A w \in Workers : DequeueReturns(w) => job_id'[w] # j]_vars

\* with job 1 done, job 2 was enqueued, claimed, failed and claimed again
C6_Witness ==
    /\ Len(jobs) = 2
    /\ jobs[1].status = "done"
    /\ nfinish[1] = 1
    /\ jobs[2].status = "in_progress"
    /\ nfail[2] >= 1
    /\ \E w \in Workers : pc[w] = "finish" /\ job_id[w] = 2

\* C10: attempts <= max(1, MAX_ATTEMPTS); below it while queued or
\* in_progress; error only at or above it; no job is handed to a handler
\* more than MAX_ATTEMPTS times.
C10_AttemptsCapped ==
    \A j \in Ids :
        /\ jobs[j].attempts <= Max(1, SQLQ_MAX_ATTEMPTS)
        /\ jobs[j].status \in {"queued", "in_progress"} =>
                jobs[j].attempts < Max(1, SQLQ_MAX_ATTEMPTS)
        /\ jobs[j].status = "error" => jobs[j].attempts >= Max(1, SQLQ_MAX_ATTEMPTS)
        /\ runs[j] <= Max(1, SQLQ_MAX_ATTEMPTS)

\* a job failed terminally after MAX_ATTEMPTS handler invocations
C10_Witness ==
    \E j \in Ids :
        /\ jobs[j].status = "error"
        /\ jobs[j].attempts = SQLQ_MAX_ATTEMPTS
        /\ runs[j] = SQLQ_MAX_ATTEMPTS

\* C2: with N workers and M queued, eligible jobs whose handlers succeed, no
\* job is claimed twice, the successful dequeue() returns never exceed M,
\* and eventually all M jobs are done, each claimed exactly once, M
\* successful dequeue() returns in all.
C2_EachClaimedOnceAndDone ==
    /\ [](/\ \A j \in Ids : claims[j] <= 1
          /\ SumTo(claims, Len(jobs)) <= Len(jobs))
    /\ <>[](/\ \A j \in Ids : jobs[j].status = "done" /\ claims[j] = 1
            /\ SumTo(claims, Len(jobs)) = Len(jobs))

\* BatchJobs jobs, more than there are workers, are all done, each claimed
\* once, the one of lower priority last
C2_Witness ==
    /\ Len(jobs) = BatchJobs
    /\ BatchJobs > NumWorkers
    /\ \A j \in Ids : jobs[j].status = "done" /\ claims[j] = 1 /\ nfinish[j] = 1
    /\ \A w \in Workers : pc[w] = "poll"

\* C7: every row of the jobs table has a status among queued, in_progress,
\* done and error.
C7_StatusDomain == \A j \in Ids : jobs[j].status \in Statuses

\* C8: a finished fail_n job with fail_times = k is done with attempts = k+1
\* when k < MAX_ATTEMPTS, and error with attempts = MAX_ATTEMPTS otherwise.
C8_FailNOutcome ==
    \A j \in Ids :
        jobs[j].status \in {"done", "error"} =>
            IF jobs[j].fail_times < SQLQ_MAX_ATTEMPTS
            THEN jobs[j].status = "done" /\ jobs[j].attempts = jobs[j].fail_times + 1
            ELSE jobs[j].status = "error" /\ jobs[j].attempts = SQLQ_MAX_ATTEMPTS

\* C9: attempts never decreases and always equals the number of fail()
\* outcomes plus the number of finish() outcomes of the job.
C9_AttemptsCountInvocations ==
    [][\A j \in Ids :
        /\ jobs'[j].attempts >= jobs[j].attempts
        /\ jobs'[j].attempts = nfail'[j] + nfinish'[j]]_vars

\* worker w completes a fail() in this step
FailReturns(w) == pc[w] = "fail_update" /\ pc'[w] # "fail_update"

\* C11: fail(id, message) on a job with attempts = a sets attempts to a+1;
\* when a+1 >= MAX_ATTEMPTS the job becomes error with result
\* {ok: false, error: message, attempts: a+1}, last_error = message and
\* next_run_at null; every other job is left as it was.
C11_FailTerminalEffect ==
    [][\A w \in Workers :
        FailReturns(w) =>
            LET j == job_id[w]
                a == jobs[j].attempts
            IN  /\ Len(jobs') = Len(jobs)
                /\ jobs'[j].attempts = a + 1
                /\ (a + 1 >= SQLQ_MAX_ATTEMPTS =>
                        /\ jobs'[j].status = "error"
                        /\ jobs'[j].result = ErrPayload(FailMessage, a + 1)
                        /\ jobs'[j].last_error = FailMessage
                        /\ jobs'[j].next_run_at = NULL)
                /\ \A i \in Ids \ {j} : jobs'[i] = jobs[i]]_vars

\* a job that had been requeued with a next_run_at failed for the last time
\* while the other job was held in_progress by the other worker
C11_Witness ==
    \E j, i \in Ids :
        /\ i # j
        /\ jobs[j].status = "error"
        /\ jobs[j].attempts = SQLQ_MAX_ATTEMPTS
        /\ nfail[j] = SQLQ_MAX_ATTEMPTS
        /\ jobs[j].result = ErrPayload(FailMessage, SQLQ_MAX_ATTEMPTS)
        /\ jobs[j].next_run_at = NULL
        /\ jobs[i].status = "in_progress"

\* C12: an enqueue() with a non-empty task adds exactly one job, queued with
\* attempts 0, result null and last_error null, and returns its id, which is
\* greater than every id returned before; the jobs that existed are unchanged.
C12_EnqueueAddsOne ==
    [][(ret' # ret \/ Len(jobs') # Len(jobs)) =>
        /\ Len(jobs') = Len(jobs) + 1
        /\ ret' = Len(jobs')
        /\ ret' > ret
        /\ jobs'[ret'].status = "queued"
        /\ jobs'[ret'].attempts = 0
        /\ jobs'[ret'].result = NullResult
        /\ jobs'[ret'].last_error = "NULL"
        /\ \A i \in Ids : ret' > i /\ jobs'[i] = jobs[i]]_vars

\* job 2 has just been enqueued beside job 1, which has failed once, was
\* claimed again and is held by a worker
C12_Witness ==
    /\ Len(jobs) = 2
    /\ ret = 2
    /\ jobs[2].status = "queued"
    /\ claims[2] = 0
    /\ jobs[1].status = "in_progress"
    /\ jobs[1].attempts = 1
    /\ \E w \in Workers : job_id[w] = 1 /\ pc[w] = "load"

\* the client's enqueue() call ends in this step
EnqueueItemReturns ==
    call' # call \/ exc' # exc \/ ret' # ret \/ Len(jobs') # Len(jobs)

C14_RoundTrip ==
    (exc = "" /\ ret # 0 /\ loaded.id = ret) =>
        /\ loaded.task = lower(trim(StrOrEmpty(call.task)))
        /\ loaded.payload = call.payload

\* C15: every job with status done has a result that is a JSON object, not
\* null, a scalar, a string or an array, and has next_run_at null.
C15_DoneResultIsObject ==
    \A j \in Ids :
        jobs[j].status = "done" =>
            /\ IsJson(jobs[j].result)
            /\ json_loads(jobs[j].result).type = "dict"
            /\ jobs[j].next_run_at = NULL

\* a job whose handler returned a list is done with the list wrapped
C15_Witness ==
    \E j \in Ids :
        /\ jobs[j].status = "done"
        /\ jobs[j].result = json_dumps(OkData(PyList("[1]")))

\* C16: a job whose handler returned a result is recorded with finish() and
\* becomes done if and only if the result's ok is true; a returned result
\* whose ok is not true is recorded with fail() and is queued or error.
C16_FinishOnlyWhenOk ==
    \A j \in Ids : jobs[j].status = "done" => jobs[j].result.ok

\* C18: when dequeue(), load(), finish() or fail() raises because the Store
\* is unavailable the worker does not terminate: no exception leaves main().
C18_StoreFailureSurvived == \A w \in Workers : pc[w] # "crashed"

\* C20: a worker stopped by a cancellation signal has recorded the job it
\* had claimed with finish() or fail(): the job is not left in_progress.
C20_StoppedBetweenJobs ==
    \A w \in Workers :
        pc[w] = "stopped" =>
            \/ job_id[w] = 0
            \/ jobs[job_id[w]].status # "in_progress"

Recorded == Cardinality({j \in Ids : nfinish[j] + nfail[j] > 0})

\* C19: a worker started with max_jobs = k exits in the end once it has
\* recorded k jobs with finish() or fail() and finds the queue idle, also
\* when the one job of a run_once worker ended in a failure.  The queue is
\* taken as idle only when no job is queued or in progress any more.
C19_BoundedRunExits ==
    \A w \in Workers :
        [](( /\ max_jobs[w] # NULL
             /\ pc[w] = "poll"
             /\ Recorded >= max_jobs[w]
             /\ \A j \in Ids : jobs[j].status \in {"done", "error"} )
           => <>(pc[w] = "exited"))

\* C21: no queue operation deletes a job: the ids of the table only grow,
\* every row keeps its task, and every id that enqueue() has returned has a
\* row, so that load(id) is not empty, in every later state.
C21_NeverDeleted ==
    [][/\ Len(jobs') >= Len(jobs)
       /\ \A id \in Ids : id \in 1..Len(jobs') /\ jobs'[id].task = jobs[id].task
       /\ \A id \in 1..ret' : id \in 1..Len(jobs')]_vars

\* both jobs that enqueue() returned are still rows of the table after one
\* was finished and the other failed for good
C21_Witness ==
    /\ ret = 2
    /\ Len(jobs) = 2
    /\ \E i, j \in Ids :
        /\ jobs[i].status = "done"
        /\ nfinish[i] = 1
        /\ jobs[j].status = "error"
        /\ nfail[j] = SQLQ_MAX_ATTEMPTS

\* C28: fail(id, message) on a job with attempts = n where n+1 < MAX_ATTEMPTS
\* sets status queued, attempts n+1, last_error = message and
\* next_run_at = now + d for an integer d with
\* base*2^n <= d <= 1.25*base*2^n, base = max(1, SQLQ_RETRY_BASE_SEC); the
\* least delay doubles with n, and the job is not ready at any time before
\* now + base*2^n.
C28_BackoffDelay ==
    [][\A w \in Workers :
        FailReturns(w) =>
            LET j    == job_id[w]
                n    == jobs[j].attempts
                base == Max(1, SQLQ_RETRY_BASE_SEC)
                low  == base * Pow2(n)
                d    == jobs'[j].next_run_at - now
            IN  n + 1 < SQLQ_MAX_ATTEMPTS =>
                    /\ jobs'[j].status = "queued"
                    /\ jobs'[j].attempts = n + 1
                    /\ jobs'[j].last_error = FailMessage
                    /\ jobs'[j].next_run_at # NULL
                    /\ d \in Int
                    /\ low <= d
                    /\ 4 * d <= 5 * low
                    /\ n > 0 => low = 2 * base * Pow2(n - 1)
                    /\ \A t \in 0..(now + low - 1) : jobs'[j].next_run_at > t]_vars

\* a job was requeued after its first failure and again after its second,
\* the second time with a delay of at least twice the base
C28_Witness ==
    \E j \in Ids :
        /\ jobs[j].status = "queued"
        /\ jobs[j].attempts = 2
        /\ nfail[j] = 2
        /\ jobs[j].next_run_at # NULL
        /\ jobs[j].next_run_at >= now + 2 * Max(1, SQLQ_RETRY_BASE_SEC)

\* C29: finish(id, result) stores a JSON-object result as it is and wraps
\* every other value (number, boolean, null, string, array) as
\* {ok: true, data: value}: what load(id) decodes from the result column is
\* the object itself or the wrapper, for every result value.
C29_FinishWrapsNonObjects ==
    "result" \in DOMAIN call =>
        json_loads_maybe(jobs[call.id].result) =
            IF call.result.type = "dict" THEN call.result
            ELSE OkData(Decode(call.result))

\* no running worker loop holds job j
Orphaned(j) ==
    /\ jobs[j].status = "in_progress"
    /\ \A w \in Workers :
          job_id[w] = j => pc[w] \in {"exited", "stopped", "crashed"}

\* C30: a job left in_progress by a worker that crashed or was stopped is
\* stuck: no init(), enqueue() or dequeue() of any process, worker startup
\* included, changes its status or returns its id again, so it never
\* becomes done or error.
C30_InProgressStuck ==
    [][\A j \in Ids :
        Orphaned(j) =>
            /\ jobs'[j] = jobs[j]
            /\ Orphaned(j)'
            /\ \A w \in Workers : job_id'[w] = j => job_id[w] = j]_vars

\* the worker was started again and has finished a later job, while the job
\* its predecessor left behind is still in_progress
C30_Witness ==
    \E j, i \in Ids :
        /\ j < i
        /\ jobs[j].status = "in_progress"
        /\ \A w \in Workers : job_id[w] # j
        /\ claims[j] = 1
        /\ jobs[i].status = "done"
        /\ nfinish[i] = 1

\* C22: init() is idempotent and safe under concurrent startup: in every
\* interleaving of init() calls, on no table, a legacy table or a full one,
\* no call raises; when a call has returned the table has each of attempts,
\* next_run_at, priority and last_error exactly once and the index exists;
\* and the rows keep their id, task, payload, status and result.
C22_InitIdempotent ==
    [][/\ \A p \in Workers : ipc'[p].at # "raised"
       /\ \A p \in Workers :
            ipc'[p].at = "done" =>
                /\ idx_jobs_ready'
                /\ \A i \in 1..Len(OptionalCols) :
                     Cardinality({k \in 1..Len(columns') :
                                    columns'[k] = OptionalCols[i]}) = 1
       /\ Len(jobs') = Len(jobs)
       /\ \A j \in Ids :
            \A c \in {"task", "payload", "status", "result"} :
                jobs'[j][c] = jobs[j][c]]_vars

\* two init() calls have returned on a table that had a row and at most
\* the column priority of the optional ones; the row has all of them now
C22_Witness ==
    /\ \A p \in Workers : ipc[p].at = "done"
    /\ \E p \in Workers : cols[p] \cap {"attempts", "next_run_at", "last_error"} = {}
    /\ Len(columns) = Len(BaseCols) + Len(OptionalCols)
    /\ Len(jobs) = 1
    /\ DOMAIN jobs[1] = {columns[k] : k \in 2..Len(columns)}

\* C23: a plan job submitted through POST /tasks with payload {idea, module}
\* and picked up by a worker eventually is done, with result.ok true and
\* result.plan holding "<idea> via <module>".
C23_PlanJobDone ==
    \A j \in 1..MaxJobs :
        [](j \in Ids =>
            <>(/\ j \in Ids
               /\ jobs[j].status = "done"
               /\ jobs[j].result.ok
               /\ "plan" \in DOMAIN jobs[j].result
               /\ jobs[j].result.plan =
                    jobs[j].payload.idea \o " via " \o jobs[j].payload.module))

\* C24: a POST /tasks whose body has an empty or missing task is handled as
\* task plan: a job with task plan is enqueued and the answer is 200 with
\* its job_id.
C24_EmptyTaskDefaultsToPlan ==
    [][(/\ resp' # resp
        /\ resp'.method = "POST"
        /\ resp'.status \notin {401, 429}
        /\ recent_tasks'[Len(recent_tasks')].task = <<>>) =>
            /\ resp'.status = 200
            /\ Len(jobs') = Len(jobs) + 1
            /\ jobs'[Len(jobs')].task = <<"p", "l", "a", "n">>
            /\ resp'.job_id = Len(jobs')]_vars

\* C25: with keys configured, a POST /tasks creates a job only if its
\* X-API-Key is one of them; any other is answered 401, enqueues nothing and
\* leaves the recent-tasks ring alone.  No other request is answered 401,
\* and without keys no POST /tasks is.
C25_ApiKeyGuardsPostTasks ==
    [][resp' # resp =>
        /\ (resp'.method = "POST" /\ allowed_keys # {}) =>
            /\ Len(jobs') > Len(jobs) => resp'.key \in allowed_keys
            /\ resp'.key \notin allowed_keys =>
                /\ resp'.status = 401
                /\ jobs' = jobs
                /\ recent_tasks' = recent_tasks
        /\ resp'.method # "POST" => resp'.status # 401
        /\ allowed_keys = {} => resp'.status # 401]_vars

\* a request with a wrong key was answered 401 after one with the
\* configured key had created a job
C25_Witness ==
    /\ allowed_keys = {"k1"}
    /\ resp.method = "POST"
    /\ resp.key = "x"
    /\ resp.status = 401
    /\ Len(jobs) = 1
    /\ Len(recent_tasks) = 1

\* C26: with RATE_REQUESTS = n > 0 and RATE_WINDOW_SEC = w > 0, in every
\* window of length w at most n POST /tasks requests of one bucket pass the
\* limiter; a request that finds n hits of its bucket within the last w
\* seconds is answered 429 and enqueues nothing, and one that finds fewer
\* passes.
C26_RateLimitWindow ==
    [][/\ \A i \in 1..Len(admitted'), t \in 0..MaxHttpTime :
            Cardinality({k \in 1..Len(admitted') :
                /\ admitted'[k].bucket = admitted'[i].bucket
                /\ admitted'[k].t \in t..(t + rate_win)}) <= rate_n
       /\ (/\ resp' # resp
           /\ resp'.method = "POST"
           /\ resp'.status # 401
           /\ rate_n > 0 /\ rate_win > 0) =>
            LET inside == {k \in 1..Len(admitted) :
                            /\ admitted[k].bucket = Bucket(resp'.key)
                            /\ now - admitted[k].t <= rate_win}
            IN  IF Cardinality(inside) >= rate_n
                THEN /\ resp'.status = 429
                     /\ jobs' = jobs
                     /\ admitted' = admitted
                ELSE /\ resp'.status # 429
                     /\ Len(admitted') = Len(admitted) + 1]_vars

\* the third request of a bucket within the window was answered 429
C26_Witness ==
    /\ rate_n = 2
    /\ resp.n = 3
    /\ resp.status = 429
    /\ Len(admitted) = 2
    /\ admitted[1].bucket = admitted[2].bucket
    /\ now - admitted[1].t <= rate_win

\* C27: the bucket comes from the API key only when the key is a configured
\* one, and from the client address otherwise: two requests of one client
\* whose keys are absent or not configured are in the same bucket.
C27_BucketByClientUnlessValidKey ==
    \A i, k \in 1..Len(admitted) :
        (/\ admitted[i].client = admitted[k].client
         /\ admitted[i].key \notin allowed_keys
         /\ admitted[k].key \notin allowed_keys) =>
            admitted[i].bucket = admitted[k].bucket

\* C40: a POST /tasks request that stores no job leaves no trace: the
\* recent-tasks ring is as it was, so that every entry GET /tasks returns
\* comes from a request answered 200.
C40_RejectedPostLeavesNoTrace ==
    [][(/\ resp' # resp
        /\ resp'.method = "POST"
        /\ Len(jobs') = Len(jobs)) =>
            recent_tasks' = recent_tasks]_vars

\* C36: a worker started with max_jobs = k finishes no more than k jobs
\* before it exits, however many eligible jobs are queued.
C36_QuotaNotExceeded ==
    \A w \in Workers : max_jobs[w] >= 1 => processed[w] <= max_jobs[w]

\* C31: a job is mutated only by the worker that claimed it: a finish() or
\* fail() is made by a worker for the id its dequeue() returned, while the
\* job is in_progress from that claim and no other worker holds it, at most
\* once per claim; and an in_progress row changes only in such a step.
C31_OnlyClaimerMutates ==
    [][/\ \A w \in Workers :
            (pc[w] \in {"finish", "fail_update"} /\ pc'[w] = "poll") =>
                /\ job_id[w] \in Ids
                /\ jobs[job_id[w]].status = "in_progress"
                /\ jobs'[job_id[w]].status # "in_progress"
                /\ \A v \in Workers \ {w} : job_id[v] # job_id[w]
                /\ nfinish[job_id[w]] + nfail[job_id[w]] + 1 = claims[job_id[w]]
       /\ \A j \in Ids :
            (jobs[j].status = "in_progress" /\ jobs'[j] # jobs[j]) =>
                \E w \in Workers :
                    /\ job_id[w] = j
                    /\ pc[w] \in {"finish", "fail_update"}
                    /\ pc'[w] = "poll"]_vars

\* a job failed once and finished on its second claim, while the other
\* worker holds a different job in progress
C31_Witness ==
    \E j \in Ids, w \in Workers :
        /\ jobs[j].status = "done"
        /\ nfail[j] = 1 /\ nfinish[j] = 1 /\ claims[j] = 2
        /\ job_id[w] \in Ids \ {j}
        /\ jobs[job_id[w]].status = "in_progress"

\* ===================================================== the handler registry
\* services.agents.HANDLERS and the registrations made at startup

\* the names the overlay's fallback loop looks for in local_tasks
FallbackNames ==
    {<<"p", "l", "a", "n">>,
     <<"g", "e", "n", "e", "r", "a", "t", "e", "_", "c", "o", "d", "e">>,
     <<"c", "o", "d", "e", "g", "e", "n">>}

\* services.agents.register(name, fn)
register(name) ==
    /\ LET key == lower(trim(StrOrEmpty(name))) IN
        IF key = <<>>
        THEN /\ reg_exc' = "ValueError"
             /\ UNCHANGED HANDLERS
        ELSE /\ HANDLERS' = HANDLERS \cup {key}
             /\ reg_exc' = ""
    /\ UNCHANGED <<jobs, now, wlock, pc, job_id, rec, row, spc, sjob, hist>>
    /\ UNCHANGED <<processed, max_jobs, store, call, ret, exc, loaded, mig, web, pipe>>

\* sitecustomize._install_local_handlers(): local_tasks.register(_register)
\* stores each name it is given as it is, then the fallback loop adds the
\* common names local_tasks defines and the registry lacks
install_local_handlers(names, present) ==
    /\ HANDLERS' = (HANDLERS \cup names) \cup
                        {n \in present : n \notin HANDLERS \cup names}
    /\ UNCHANGED <<jobs, now, wlock, pc, job_id, rec, row, spc, sjob, hist>>
    /\ UNCHANGED <<processed, max_jobs, store, call, ret, exc, loaded, mig, web,
                   reg_exc, pipe>>

NextReg ==
    \/ \E name \in TaskArgs : register(name)
    \/ \E names \in {{}} \cup {{n} : n \in TaskTexts}, present \in SUBSET FallbackNames :
            install_local_handlers(names, present)

SpecReg == Init /\ [][NextReg]_vars

\* C33: after any sequence of registrations every key of the registry is a
\* non-empty, trimmed, lowercase name, and the registry contains the
\* 'unknown' sentinel handler.
C33_RegistryKeysNormalised ==
    /\ \A key \in HANDLERS : key # <<>> /\ trim(key) = key /\ lower(key) = key
    /\ <<"u", "n", "k", "n", "o", "w", "n">> \in HANDLERS

\* C32: a job whose task name has no handler ends with status 'done'
\* carrying a result with ok == false and the error "unknown task: <name>".
C32_UnknownTaskResolved ==
    \A j \in Ids :
        (jobs[j].task = "echo" /\ jobs[j].status = "done") =>
            /\ ~jobs[j].result.ok
            /\ jobs[j].result.error = "unknown task: echo"

\* ===================================================== the direct-DB workers
\* services/queue/worker_entry.py (and the _db_pop_one that sitecustomize
\* patches in): N worker processes pop jobs straight from the table, next to
\* the standalone worker.  Both begin with BEGIN IMMEDIATE, as dequeue() does.

\* UPDATE jobs SET status='working' WHERE id=?
WorkingUpdate(js, j) == [js EXCEPT ![j].status = "working"]

\* _db_pop_one: the SELECT of the oldest queued row; without a row, commit
\* and return None
db_pop_select(w) ==
    /\ pc[w] = "dequeue"
    /\ LET j == SelectQueued(jobs) IN
        /\ job_id' = [job_id EXCEPT ![w] = j]
        /\ pc' = [pc EXCEPT ![w] = IF j = 0 THEN "poll" ELSE "pop_update"]
        /\ wlock' = IF j = 0 THEN 0 ELSE wlock
    /\ UNCHANGED <<jobs, now, rec, row, spc, sjob, hist>>
    /\ UNCHANGED ext

\* _db_pop_one: the UPDATE, which names the id alone, and the commit
db_pop_update(w) ==
    /\ pc[w] = "pop_update"
    /\ jobs' = WorkingUpdate(jobs, job_id[w])
    /\ claims' = [claims EXCEPT ![job_id[w]] = @ + 1]
    /\ wlock' = 0
    /\ pc' = [pc EXCEPT ![w] = "dispatch"]
    /\ UNCHANGED <<now, job_id, rec, row, spc, sjob, episodes, runs, nfail, nfinish>>
    /\ UNCHANGED ext

\* result = _dispatch(task_name, payload); _db_done(jid, result or None, err)
db_done(w) ==
    /\ pc[w] = "dispatch"
    /\ wlock = 0
    /\ \E ok \in BOOLEAN :
        jobs' = [jobs EXCEPT ![job_id[w]].status = IF ok THEN "done" ELSE "error",
                             ![job_id[w]].result = [ok |-> ok, error |-> "NULL", n |-> 0]]
    /\ runs' = [runs EXCEPT ![job_id[w]] = @ + 1]
    /\ pc' = [pc EXCEPT ![w] = "poll"]
    /\ job_id' = [job_id EXCEPT ![w] = 0]
    /\ UNCHANGED <<now, wlock, rec, row, spc, sjob, claims, episodes, nfail, nfinish>>
    /\ UNCHANGED ext

NextPop ==
    \/ enqueue("echo", 0, 0, NULL)
    \/ \E w \in Workers : dequeue_begin(w)
    \/ \E w \in Workers : db_pop_select(w)
    \/ \E w \in Workers : db_pop_update(w)
    \/ \E w \in Workers : db_done(w)
    \/ claim_one_job_begin
    \/ claim_one_job

SpecPop == Init /\ [][NextPop]_vars

\* C39: in the direct-DB workers, under any interleaving of the concurrent
\* workers, each queued job is claimed by at most one worker: no job is
\* popped twice and no two workers hold the same job, although the UPDATE
\* of _db_pop_one is not conditioned on status='queued'.
C39_PopClaimsOnce ==
    /\ \A j \in Ids : claims[j] <= 1
    /\ \A w1, w2 \in Workers :
        (w1 # w2 /\ pc[w1] = "dispatch") =>
            ~(pc[w2] \in {"pop_update", "dispatch"} /\ job_id[w2] = job_id[w1])
    /\ \A w \in Workers :
        (pc[w] \in {"pop_update", "dispatch"} /\ spc = "process") => job_id[w] # sjob
    /\ \A j \in Ids :
        jobs[j].status = "working" => \E w \in Workers : pc[w] = "dispatch" /\ job_id[w] = j

\* two jobs, one held by each worker_entry process at the same time
C39_Witness ==
    \E w1, w2 \in Workers :
        /\ w1 # w2
        /\ pc[w1] = "dispatch" /\ pc[w2] = "dispatch"
        /\ job_id[w1] # job_id[w2]
        /\ jobs[job_id[w1]].status = "working"
        /\ jobs[job_id[w2]].status = "working"

\* ================================== the pipeline tasks of services/worker/main
\* process_job() for plan, generate_code and run_tests jobs and for jobs it
\* hands to the router, run by N worker loops on an available TASK_DB.
\* route() answers with its status dict; for a plan task it first POSTs the
\* task to the API's /tasks, and an API that is up, takes the request and
\* serves this TASK_DB stores it as one more plan job.

\* payload.module: absent or empty, blank, or a module name
Modules == {<<>>, <<" ">>, <<"a">>}

\* a queued row with the payload keys the handlers read; code_job_id and
\* parent_job are 0 when the payload lacks them
TaskJob(task, module, code_job_id, parent_job) ==
    NewJob(task, 0, 0, NULL) @@
        [module |-> module, code_job_id |-> code_job_id, parent_job |-> parent_job]

\* _truthy(os.getenv("WORKER_ENABLE_PIPELINE")) and
\* str(payload.get("module", "")).strip()
UsePipeline(flag, module) == flag /\ trim(module) # <<>>

\* a dependency test that accepts every status
DepReady_any(js, id) == TRUE

\* _require_job_done: rec["status"] == "done"
DepReady(js, id) == js[id].status = "done"

\* f"{type(e).__name__}: {e}" for the RuntimeError of _require_job_done
NotReady(id) == "RuntimeError: dependency job " \o ToString(id) \o " not ready"

\* the rows that the pipelines of unfinished plan jobs will still insert
Reserved ==
    SumTo([j \in Ids |->
            IF /\ jobs[j].task = "plan"
               /\ jobs[j].status \in {"queued", "in_progress"}
               /\ UsePipeline(enable_pipeline, jobs[j].module)
            THEN 2 - Cardinality({i \in Ids : jobs[i].parent_job = j})
            ELSE 0], Len(jobs))

\* the rows a client may still add
Room(task, module) ==
    /\ Cardinality({i \in Ids : jobs[i].parent_job = 0}) < MaxJobs
    /\ Len(jobs) + Reserved + 1 +
            (IF task = "plan" /\ UsePipeline(enable_pipeline, module) THEN 2 ELSE 0)
        <= Cardinality(JobIds)

\* a client's enqueue(task=..., payload=...), while the table has room
task_enqueue(task, module, code_job_id) ==
    /\ wlock = 0
    /\ Room(task, module)
    /\ jobs' = Append(jobs, TaskJob(task, module, code_job_id, 0))
    /\ episodes' = [episodes EXCEPT ![Len(jobs) + 1] = 1]
    /\ UNCHANGED <<now, wlock, pc, job_id, rec, row, spc, sjob,
                   claims, runs, nfail, nfinish>>
    /\ UNCHANGED ext

\* rec = _q().load(job_id) of a plan job, and the _call_router("plan", ...)
\* that process_job and _task_plan_pipeline begin with: the API is down,
\* refuses the request or has another TASK_DB, or its post_task enqueues
\* the posted task
call_router(w) ==
    /\ pc[w] = "load"
    /\ jobs[job_id[w]].task = "plan"
    /\ pc' = [pc EXCEPT ![w] = "routed"]
    /\ \/ UNCHANGED <<jobs, episodes>>
       \/ /\ wlock = 0
          /\ Room("plan", jobs[job_id[w]].module)
          /\ jobs' = Append(jobs, TaskJob("plan", jobs[job_id[w]].module, 0, 0))
          /\ episodes' = [episodes EXCEPT ![Len(jobs) + 1] = 1]
    /\ UNCHANGED <<now, wlock, job_id, rec, row, spc, sjob, claims, runs, nfail, nfinish>>
    /\ UNCHANGED ext

\* rec = _q().load(job_id); result = process_job(rec), up to the first
\* statement that writes to the table
task_process_job(w) ==
    /\ pc[w] \in {"load", "routed"}
    /\ pc[w] = IF jobs[job_id[w]].task = "plan" THEN "routed" ELSE "load"
    /\ LET j    == job_id[w]
           r    == jobs[j]
           d    == r.code_job_id
           Ok   == [ok |-> TRUE, error |-> "NULL", n |-> 0]
           Raise(message) ==
                /\ res' = [res EXCEPT ![w] = [ok |-> FALSE, error |-> message, n |-> 0]]
                /\ pc' = [pc EXCEPT ![w] = "fail"]
                /\ UNCHANGED <<jobs, episodes, harness>>
           Return(value) ==
                /\ res' = [res EXCEPT ![w] = value]
                /\ pc' = [pc EXCEPT ![w] = "finish"]
                /\ UNCHANGED <<jobs, episodes, harness>>
       IN  /\ rec' = [rec EXCEPT ![w] = r.attempts]
           /\ runs' = [runs EXCEPT ![j] = @ + 1]
           /\ CASE r.task = "plan" /\ UsePipeline(enable_pipeline, r.module) ->
                    \* _task_plan_pipeline: code_job_id = _enqueue("generate_code", ...)
                    /\ wlock = 0
                    /\ jobs' = Append(jobs, TaskJob("generate_code", r.module, 0, j))
                    /\ episodes' = [episodes EXCEPT ![Len(jobs) + 1] = 1]
                    /\ res' = [res EXCEPT ![w] = Ok @@ [code_job_id |-> Len(jobs) + 1]]
                    /\ pc' = [pc EXCEPT ![w] = "pipeline"]
                    /\ UNCHANGED harness
                [] r.task = "plan" /\ ~UsePipeline(enable_pipeline, r.module) ->
                    Return(RouteResult)
                [] r.task = "generate_code" ->
                    Return(Ok @@ [module |-> r.module])
                [] r.task = "run_tests" /\ d = 0 ->
                    Raise("RuntimeError: missing code_job_id")
                [] r.task = "run_tests" /\ d # 0 /\ d \notin Ids ->
                    Raise("RuntimeError: dependency job " \o ToString(d) \o " not found")
                [] r.task = "run_tests" /\ d \in Ids /\ ~DepReady(jobs, d) ->
                    Raise(NotReady(d))
                [] r.task = "run_tests" /\ d \in Ids /\ DepReady(jobs, d) ->
                    \* rc = pytest.main(["-q", test_path])
                    /\ harness' = harness \cup
                            {[job |-> j, dep |-> d, status |-> jobs[d].status]}
                    /\ \E rc \in {0, 1} :
                        /\ res' = [res EXCEPT ![w] =
                                    IF rc = 0 THEN Ok
                                    ELSE [ok |-> FALSE, n |-> 0,
                                          error |-> "RuntimeError: pytest returned exit code 1"]]
                        /\ pc' = [pc EXCEPT ![w] = IF rc = 0 THEN "finish" ELSE "fail"]
                    /\ UNCHANGED <<jobs, episodes>>
                [] OTHER ->
                    Return(RouteResult)
    /\ UNCHANGED <<now, wlock, job_id, row, spc, sjob, claims, nfail, nfinish>>
    /\ UNCHANGED <<processed, max_jobs, store, call, ret, exc, loaded, mig, web, reg,
                   enable_pipeline>>

\* _task_plan_pipeline: test_job_id = _enqueue("run_tests", ...) and the
\* return of the pipeline's result
task_plan_pipeline(w) ==
    /\ pc[w] = "pipeline"
    /\ wlock = 0
    /\ jobs' = Append(jobs, TaskJob("run_tests", <<>>, res[w].code_job_id, job_id[w]))
    /\ episodes' = [episodes EXCEPT ![Len(jobs) + 1] = 1]
    /\ res' = [res EXCEPT ![w] =
                [ok |-> TRUE, error |-> "NULL", n |-> 0,
                 subjobs |-> [generate_code |-> res[w].code_job_id,
                              run_tests |-> Len(jobs) + 1]]]
    /\ pc' = [pc EXCEPT ![w] = "finish"]
    /\ UNCHANGED <<now, wlock, job_id, rec, row, spc, sjob, claims, runs, nfail, nfinish>>
    /\ UNCHANGED <<processed, max_jobs, store, call, ret, exc, loaded, mig, web, reg,
                   enable_pipeline, harness>>

\* _q().finish(job_id, result)
task_finish(w) ==
    /\ pc[w] = "finish"
    /\ wlock = 0
    /\ jobs' = DoneUpdate(jobs, job_id[w], res[w])
    /\ nfinish' = [nfinish EXCEPT ![job_id[w]] = @ + 1]
    /\ pc' = [pc EXCEPT ![w] = "poll"]
    /\ job_id' = [job_id EXCEPT ![w] = 0]
    /\ rec' = [rec EXCEPT ![w] = 0]
    /\ res' = [res EXCEPT ![w] = NullResult]
    /\ UNCHANGED <<now, wlock, row, spc, sjob, claims, episodes, runs, nfail>>
    /\ UNCHANGED <<processed, max_jobs, store, call, ret, exc, loaded, mig, web, reg,
                   enable_pipeline, harness>>

\* _q().fail(job_id, f"{type(e).__name__}: {e}"): the UPDATE and its commit
task_fail(w) ==
    /\ pc[w] = "fail_update"
    /\ wlock = 0
    /\ LET j            == job_id[w]
           new_attempts == row[w] + 1
       IN  IF Terminal(new_attempts)
           THEN /\ jobs' = ErrorUpdate(jobs, j, new_attempts, res[w].error)
                /\ UNCHANGED episodes
           ELSE /\ \E delay \in NextDelays(row[w]) :
                      jobs' = RequeueUpdate(jobs, j, new_attempts, res[w].error, now + delay)
                /\ episodes' = [episodes EXCEPT ![j] = @ + 1]
    /\ nfail' = [nfail EXCEPT ![job_id[w]] = @ + 1]
    /\ pc' = [pc EXCEPT ![w] = "poll"]
    /\ job_id' = [job_id EXCEPT ![w] = 0]
    /\ rec' = [rec EXCEPT ![w] = 0]
    /\ row' = [row EXCEPT ![w] = 0]
    /\ res' = [res EXCEPT ![w] = NullResult]
    /\ UNCHANGED <<now, wlock, spc, sjob, claims, runs, nfinish>>
    /\ UNCHANGED <<processed, max_jobs, store, call, ret, exc, loaded, mig, web, reg,
                   enable_pipeline, harness>>

\* the workers polling an empty table, with WORKER_ENABLE_PIPELINE set or not
TaskInit ==
    /\ jobs = <<>>
    /\ now = 0
    /\ wlock = 0
    /\ pc = [w \in Workers |-> "poll"]
    /\ job_id = [w \in Workers |-> 0]
    /\ rec = [w \in Workers |-> 0]
    /\ row = [w \in Workers |-> 0]
    /\ spc = "poll"
    /\ sjob = 0
    /\ claims = [j \in JobIds |-> 0]
    /\ episodes = [j \in JobIds |-> 0]
    /\ runs = [j \in JobIds |-> 0]
    /\ nfail = [j \in JobIds |-> 0]
    /\ nfinish = [j \in JobIds |-> 0]
    /\ processed = [w \in Workers |-> 0]
    /\ max_jobs = [w \in Workers |-> NULL]
    /\ store = TRUE
    /\ call = NoCall
    /\ ret = 0
    /\ exc = ""
    /\ loaded = NoRecord
    /\ columns = BaseCols \o OptionalCols
    /\ idx_jobs_ready = TRUE
    /\ ipc = [p \in Workers |-> [at |-> "idle", i |-> 0]]
    /\ cols = [p \in Workers |-> {}]
    /\ allowed_keys = {}
    /\ rate_n = 0
    /\ rate_win = 0
    /\ hits = <<>>
    /\ recent_tasks = <<>>
    /\ resp = [n |-> 0, method |-> "", path |-> "", key |-> "", client |-> "",
               status |-> 0, job_id |-> 0]
    /\ admitted = <<>>
    /\ HANDLERS = BuiltIns
    /\ reg_exc = ""
    /\ enable_pipeline \in BOOLEAN
    /\ res = [w \in Workers |-> NullResult]
    /\ harness = {}

TaskEnqueue ==
    \/ \E module \in Modules : task_enqueue("plan", module, 0)
    \/ task_enqueue("generate_code", <<"a">>, 0)
    \/ \E code_job_id \in 0..MaxJobs : task_enqueue("run_tests", <<>>, code_job_id)
    \/ task_enqueue("echo", <<>>, 0)

NextTasks ==
    \/ TaskEnqueue
    \/ \E w \in Workers : dequeue_begin(w)
    \/ \E w \in Workers : dequeue(w)
    \/ \E w \in Workers : call_router(w)
    \/ \E w \in Workers : task_process_job(w)
    \/ \E w \in Workers : task_plan_pipeline(w)
    \/ \E w \in Workers : task_finish(w)
    \/ \E w \in Workers : fail_select(w)
    \/ \E w \in Workers : task_fail(w)
    \/ Tick

SpecTasks == TaskInit /\ [][NextTasks]_vars

\* the rows a worker inserted while it processed job j
Subjobs(j) == {i \in Ids : jobs[i].parent_job = j}

\* C35: with the pipeline flag set and a non-empty payload.module, a
\* processed plan job has enqueued exactly two subjobs, generate_code first
\* and run_tests second (the smaller id first), both queued at priority 0,
\* with run_tests.payload.code_job_id equal to the generate_code id, and its
\* result's subjobs map names those two ids; with the flag unset or the
\* module empty, processing a plan job enqueues no job.
C35_PipelineSubjobs ==
    /\ [](\A j \in Ids :
            jobs[j].task = "plan" =>
                IF enable_pipeline /\ trim(jobs[j].module) # <<>>
                THEN /\ Cardinality(Subjobs(j)) <= 2
                     /\ jobs[j].status = "done" =>
                            LET g == jobs[j].result.subjobs.generate_code
                                t == jobs[j].result.subjobs.run_tests
                            IN  /\ Subjobs(j) = {g, t}
                                /\ g < t
                                /\ jobs[g].task = "generate_code"
                                /\ jobs[t].task = "run_tests"
                                /\ jobs[t].code_job_id = g
                                /\ jobs[g].priority = 0 /\ jobs[t].priority = 0
                ELSE Subjobs(j) = {})
    /\ [][\A w \in Workers :
            (pc[w] \in {"load", "routed", "pipeline"} /\ pc'[w] # pc[w]) =>
                \/ jobs' = jobs
                \/ /\ Len(jobs') = Len(jobs) + 1
                   /\ jobs'[Len(jobs')].status = "queued"
                   /\ jobs'[Len(jobs')].priority = 0
                   /\ jobs'[Len(jobs')].attempts = 0
                   /\ jobs'[Len(jobs')].parent_job = job_id[w]
                   /\ jobs[job_id[w]].task = "plan"
                   /\ enable_pipeline /\ trim(jobs[job_id[w]].module) # <<>>]_vars

\* C34: a run_tests job never runs the test harness and never reaches 'done'
\* unless the job named by payload.code_job_id had status 'done' at the time
\* of that attempt; an attempt made while the referenced job is queued,
\* in_progress or error fails with "dependency job <id> not ready" and is
\* recorded through fail().
C34_RunTestsNeedsDoneDependency ==
    /\ [](/\ \A h \in harness : h.status = "done"
          /\ \A j \in Ids :
                (jobs[j].task = "run_tests" /\ jobs[j].status = "done") =>
                    \E h \in harness : h.job = j /\ h.dep = jobs[j].code_job_id)
    /\ [][\A w \in Workers :
            /\ (/\ pc[w] = "load" /\ pc'[w] # "load"
                /\ jobs[job_id[w]].task = "run_tests"
                /\ jobs[job_id[w]].code_job_id \in Ids
                /\ jobs[jobs[job_id[w]].code_job_id].status
                        \in {"queued", "in_progress", "error"}) =>
                    /\ pc'[w] = "fail"
                    /\ res'[w].error = "RuntimeError: dependency job " \o
                            ToString(jobs[job_id[w]].code_job_id) \o " not ready"
                    /\ harness' = harness
            /\ (pc[w] = "fail_update" /\ pc'[w] = "poll") =>
                    /\ jobs'[job_id[w]].last_error = res[w].error
                    /\ jobs'[job_id[w]].attempts = jobs[job_id[w]].attempts + 1
                    /\ nfail'[job_id[w]] = nfail[job_id[w]] + 1]_vars

\* a run_tests job that failed with "not ready" while its dependency was
\* unfinished and was done by a later attempt, the harness having run
C34_Witness ==
    \E j \in Ids :
        /\ jobs[j].task = "run_tests"
        /\ jobs[j].status = "done"
        /\ jobs[j].attempts >= 1
        /\ jobs[j].last_error = NotReady(jobs[j].code_job_id)
        /\ \E h \in harness : h.job = j

\* C38: a run_tests job whose dependency is still queued or in_progress is
\* never driven to the terminal status error by "dependency job not ready"
\* failures alone: waiting for the dependency does not use up its retries.
C38_WaitingKeepsRetryBudget ==
    \A j \in Ids :
        (/\ jobs[j].task = "run_tests"
         /\ jobs[j].status = "error"
         /\ jobs[j].code_job_id \in Ids
         /\ jobs[j].last_error = NotReady(jobs[j].code_job_id)) =>
            jobs[jobs[j].code_job_id].status \notin {"queued", "in_progress"}

\* ======================================================= a run without end
\* The workers of the pipeline tasks with a clock that never stops.  The
\* code compares next_run_at with _now() and nothing else, so past
\* MaxNotBefore a second that passes is counted by bringing every pending
\* next_run_at one second closer instead of by a larger now.
Advance ==
    /\ IF now < MaxNotBefore
       THEN /\ now' = now + 1
            /\ UNCHANGED jobs
       ELSE /\ UNCHANGED now
            /\ jobs' = [i \in Ids |->
                        IF jobs[i].next_run_at > now
                        THEN [jobs[i] EXCEPT !.next_run_at = @ - 1]
                        ELSE jobs[i]]
    /\ UNCHANGED <<wlock, pc, job_id, rec, row, spc, sjob, hist>>
    /\ UNCHANGED ext

NextLive ==
    \/ TaskEnqueue
    \/ \E w \in Workers : dequeue_begin(w)
    \/ \E w \in Workers : dequeue(w)
    \/ \E w \in Workers : call_router(w)
    \/ \E w \in Workers : task_process_job(w)
    \/ \E w \in Workers : task_plan_pipeline(w)
    \/ \E w \in Workers : task_finish(w)
    \/ \E w \in Workers : fail_select(w)
    \/ \E w \in Workers : task_fail(w)
    \/ Advance

\* No worker crashes or stops, every handler returns or raises, a statement
\* that waits for the write lock gets it in the end, and time passes.
FairLive ==
    /\ WF_vars(Advance)
    /\ \A w \in Workers :
        SF_vars(\/ dequeue_begin(w) \/ dequeue(w) \/ call_router(w)
                \/ task_process_job(w) \/ task_plan_pipeline(w)
                \/ task_finish(w) \/ fail_select(w) \/ task_fail(w))

SpecLive == TaskInit /\ [][NextLive]_vars /\ FairLive

====
